---- MODULE Spec2Model ----
(***************************************************************************)
(* Calendar-Analytics: the Block Builder (services/calendarAnalyzer.js),    *)
(* the Criteria Evaluator of the one-day and of the two-day build          *)
(* (services/csvService.js), the parallel fetch (services/calendarApi.js)  *)
(* and the report generation of the service worker (background.js).        *)
(*                                                                         *)
(* Representation of JavaScript values:                                    *)
(*  - a calendarId / email is a sequence of segments, the pieces between   *)
(*    occurrences of the separator "__": "a" is <<"a">>, "a__b" is         *)
(*    <<"a","b">>.  String concatenation with "__" is \o, split("__") is   *)
(*    the sequence itself.                                                 *)
(*  - an ISO datetime string is [date, min]: the text before "T" and the   *)
(*    minute of the day written after it.                                  *)
(*  - a Date object is its instant in milliseconds; an Invalid Date is NaN.*)
(*  - "HH:MM" is <<hours, minutes>>.                                       *)
(* Events handed to the analyzer are normalized: start and end are present *)
(* and start <= end, so the `!ev.start || !ev.end` skip never fires.       *)
(***************************************************************************)
EXTENDS Integers, Sequences, FiniteSets, TLC

\* ------------------------------------------------------------------------
\* Bounds of the model
\* ------------------------------------------------------------------------
MaxEvents == 2
MaxEventsTwoDay == 3

\* ------------------------------------------------------------------------
\* Program constants
\* ------------------------------------------------------------------------
MS_PER_MIN == 60000
MIN_PER_DAY == 24 * 60
TOTAL_MIN == 540
BUSY_THRESHOLD == 85
DEFAULT_MAX_BLOCK == 60
LOW_DAY_CEILING == 30
HIGH_DAY_CEILING == 70
NaN == -1

\* ------------------------------------------------------------------------
\* Dates and times
\* ------------------------------------------------------------------------
Days == {"d1", "d2"}

\* Position of a civil date on the time line; a text that is no date has none.
DayIndex(d) == CASE d = "d1" -> 1 [] d = "d2" -> 2 [] d = "d3" -> 3 [] OTHER -> NaN

\* new Date(isoString)
ToDate(iso) ==
  IF DayIndex(iso.date) = NaN THEN NaN
  ELSE (DayIndex(iso.date) * MIN_PER_DAY + iso.min) * MS_PER_MIN

\* new Date(`${date}T${hhmm}:00`)
MakeDate(date, hhmm) == ToDate([date |-> date, min |-> hhmm[1] * 60 + hhmm[2]])

\* Relational operators on Date values: every comparison with NaN is false.
Lt(a, b) == a # NaN /\ b # NaN /\ a < b
Gt(a, b) == Lt(b, a)

\* Math.max / Math.min
MathMax(a, b) == IF a = NaN \/ b = NaN THEN NaN ELSE IF a >= b THEN a ELSE b
MathMin(a, b) == IF a = NaN \/ b = NaN THEN NaN ELSE IF a <= b THEN a ELSE b

extractDate(iso) == iso.date

formatTime(dateObj) ==
  <<((dateObj \div MS_PER_MIN) % MIN_PER_DAY) \div 60, (dateObj \div MS_PER_MIN) % 60>>

\* ------------------------------------------------------------------------
\* Inputs
\* ------------------------------------------------------------------------
Owners == {<<"a">>, <<"b">>, <<"a", "b">>}
PlainOwners == {<<"a">>, <<"b">>}

\* <<start minute, end minute>> of timed events, around the 07:00-17:00 window
Shapes ==
  { <<360, 420>>, <<420, 480>>, <<420, 879>>, <<480, 480>>,
    <<480, 879>>, <<360, 1080>>, <<879, 1020>>, <<1020, 1080>> }

NextDay(d) == IF d = "d1" THEN "d2" ELSE "d3"

TimedEvent(o, d, s) ==
  [calendarId |-> o, start |-> [date |-> d, min |-> s[1]],
   end |-> [date |-> d, min |-> s[2]], allDay |-> FALSE]

AllDayEvent(o, d) ==
  [calendarId |-> o, start |-> [date |-> d, min |-> 0],
   end |-> [date |-> NextDay(d), min |-> 0], allDay |-> TRUE]

EventPool ==
  {TimedEvent(o, d, s) : o \in PlainOwners, d \in Days, s \in Shapes}
    \cup {AllDayEvent(<<"a">>, d) : d \in Days}
    \cup {TimedEvent(<<"a", "b">>, "d1", <<420, 480>>)}

\* The summary of an event is its position in the fetched list.
WithSummary(evs) ==
  [j \in 1..Len(evs) |->
     [calendarId |-> evs[j].calendarId, start |-> evs[j].start,
      end |-> evs[j].end, allDay |-> evs[j].allDay, summary |-> j]]

EventLists == UNION {[1..n -> EventPool] : n \in 0..MaxEvents}

Configs ==
  { [workdayStart |-> <<7, 0>>, workdayEnd |-> <<17, 0>>, maxStandardBlockMinutes |-> 60],
    [workdayStart |-> <<7, 0>>, workdayEnd |-> <<17, 0>>, maxStandardBlockMinutes |-> 459],
    [workdayStart |-> <<8, 0>>, workdayEnd |-> <<14, 39>>, maxStandardBlockMinutes |-> 60] }

\* Configurations whose window is empty or reversed: workdayStart >= workdayEnd.
\* Neither the options page nor the analyzer rejects them.
InvalidConfigs ==
  { [workdayStart |-> <<17, 0>>, workdayEnd |-> <<7, 0>>, maxStandardBlockMinutes |-> 60],
    [workdayStart |-> <<7, 0>>, workdayEnd |-> <<7, 0>>, maxStandardBlockMinutes |-> 60],
    [workdayStart |-> <<12, 0>>, workdayEnd |-> <<8, 0>>, maxStandardBlockMinutes |-> 459] }

\* Inputs of the two-day report: three dates, so that a user can own a
\* timeline outside the two target dates; durations 60, 162, 378 and (clipped) 540.
TwoDayDays == {"d1", "d2", "d3"}

TwoDayShapes == { <<420, 480>>, <<420, 582>>, <<420, 798>>, <<360, 1080>> }

TwoDayPool ==
  {TimedEvent(<<"a">>, d, s) : d \in TwoDayDays, s \in TwoDayShapes}
    \cup {TimedEvent(<<"b">>, "d1", <<420, 798>>)}

TwoDayEventLists == UNION {[1..n -> TwoDayPool] : n \in 0..MaxEventsTwoDay}

TwoDayConfigs == {c \in Configs : c.workdayStart = <<7, 0>>}

\* The selections the popup can send: none, one, or two dates in either order.
DateSelections ==
  {<<>>} \cup {<<d>> : d \in TwoDayDays} \cup {<<d, e>> : d \in TwoDayDays, e \in TwoDayDays}

\* ------------------------------------------------------------------------
\* State
\* ------------------------------------------------------------------------
VARIABLES
  events,      \* the caller's event list
  config,      \* the caller's configuration
  pc,          \* position of the report generation
  grouped,     \* analyzeCalendar: the map of groupEventsByUserAndDay, in key order
  k,           \* analyzeCalendar: index of the key being analysed
  busyBlocks,  \* analyzeDayBlocks: filtered and clipped events
  i,           \* analyzeDayBlocks: index of the busy block being walked
  cursor,      \* analyzeDayBlocks: the gap cursor
  allBlocks,   \* analyzeDayBlocks: blocks emitted so far
  results,     \* analyzeCalendar: timelines pushed so far
  selectedDates, \* buildCriteriaCsv: the target dates
  rows,        \* buildCriteriaCsv: verdict rows (without header)
  build,       \* which build of the extension runs: one-day or two-day
  calendarIds, \* payload.emails: the requested calendars
  dateIdx,     \* fetchAllEventsForPayload: index of the date being fetched
  responses,   \* per fetched date, what each calendar's request came back with
  failures,    \* fetchEventsForUsers: the failures array of the running call
  fetched,     \* the value the last fetchEventsForUsers call resolved with
  allFailures, \* fetchAllEventsForPayload: failures collected so far
  csv,         \* the rows of the downloaded report, header first
  isAuthenticated,  \* popup: the user connected, or a valid token was found
  emailsFromCsv,    \* popup: the addresses of the loaded file
  generateDisabled, \* popup: generateBtn.disabled
  criteriaDisabled, \* popup: criteriaBtn.disabled
  inFlight,         \* popup: report messages sent whose callback has not run
  opened,           \* popup: the DOMContentLoaded handler has finished
  connecting,       \* popup: authenticateUser calls of the connect button
  readers,          \* popup: FileReaders reading, with the file each reads
  authStatus,       \* popup: what authStatusEl says
  csvInfo,          \* popup: what csvInfoEl says
  storedToken,      \* chrome.storage.local: the slot of the token
  clock,            \* Date.now(), in ms
  authPc,           \* getAccessToken: position of the call
  authResult,       \* getAccessToken: what the promise settled with
  launched,         \* getAccessToken: launchWebAuthFlow was called
  tokenBefore,      \* the token slot when getAccessToken read it
  nowAtCheck,       \* Date.now() when isTokenExpired ran
  pendingToken,     \* authenticateUser: the tokenObj being saved
  storedConfig,     \* chrome.storage.local: the object under CONFIG_KEY
  calls,            \* storage.js: the calls made, with their position
  received,         \* background: the message the listener is called with
  handlerPc,        \* background: position of the listener and its handler
  effects,          \* background: what the handler has requested so far
  sent,             \* background: the sendResponse calls made
  channel,          \* background: the listener's return value
  thrown            \* background: what the handler's promise rejected with

fetchVars == <<build, calendarIds, dateIdx, responses, failures, fetched, allFailures, csv>>

popupVars == <<isAuthenticated, emailsFromCsv, generateDisabled, criteriaDisabled,
               inFlight, opened, connecting, readers, authStatus, csvInfo>>

authVars == <<storedToken, clock, authPc, authResult, launched, tokenBefore,
              nowAtCheck, pendingToken>>

storageVars == <<storedConfig, calls>>

listenerVars == <<received, handlerPc, effects, sent, channel, thrown>>

hostVars == <<popupVars, authVars, storageVars, listenerVars>>

coreVars == <<events, config, pc, grouped, k, busyBlocks, i, cursor, allBlocks,
              results, selectedDates, rows>>

vars == <<events, config, pc, grouped, k, busyBlocks, i, cursor, allBlocks,
          results, selectedDates, rows, fetchVars, hostVars>>

\* ------------------------------------------------------------------------
\* Grouping
\* ------------------------------------------------------------------------
\* `${ev.calendarId}__${dateKey}`
GroupKey(ev) == ev.calendarId \o <<extractDate(ev.start)>>

HasKey(map, key) == \E j \in 1..Len(map) : map[j].key = key

\* if (!map[key]) map[key] = []; map[key].push(ev)
MapPush(map, key, ev) ==
  IF HasKey(map, key)
  THEN [j \in 1..Len(map) |->
          IF map[j].key = key
          THEN [key |-> key, evs |-> Append(map[j].evs, ev)]
          ELSE map[j]]
  ELSE Append(map, [key |-> key, evs |-> <<ev>>])

RECURSIVE GroupFrom(_, _, _)
GroupFrom(evs, j, map) ==
  IF j > Len(evs) THEN map
  ELSE GroupFrom(evs, j + 1, MapPush(map, GroupKey(evs[j]), evs[j]))

\* Array.prototype.sort with (a, b) => new Date(a.start) - new Date(b.start):
\* a stable sort, ascending by start instant.
RECURSIVE InsertByStart(_, _)
InsertByStart(sorted, ev) ==
  IF sorted = <<>> THEN <<ev>>
  ELSE IF ToDate(sorted[Len(sorted)].start) <= ToDate(ev.start)
       THEN Append(sorted, ev)
       ELSE Append(InsertByStart(SubSeq(sorted, 1, Len(sorted) - 1), ev),
                   sorted[Len(sorted)])

RECURSIVE SortFrom(_, _, _)
SortFrom(evs, j, acc) ==
  IF j > Len(evs) THEN acc ELSE SortFrom(evs, j + 1, InsertByStart(acc, evs[j]))

\* Variant: the groups are left in input order.
SortByStart_unsorted(evs) == evs

SortByStart(evs) == SortFrom(evs, 1, <<>>)

groupEventsByUserAndDay(evs) ==
  LET map == GroupFrom(evs, 1, <<>>)
  IN  [j \in 1..Len(map) |-> [key |-> map[j].key, evs |-> SortByStart(map[j].evs)]]

\* const [email, date] = key.split("__")
parseGroupKey(key) == [email |-> <<key[1]>>, date |-> key[2]]

\* ------------------------------------------------------------------------
\* Day analysis
\* ------------------------------------------------------------------------
WorkStart(date, cfg) == MakeDate(date, cfg.workdayStart)
WorkEnd(date, cfg) == MakeDate(date, cfg.workdayEnd)

ToBusy(ev) ==
  [type |-> "busy", title |-> ev.summary, start |-> ToDate(ev.start), end |-> ToDate(ev.end)]

\* Variant: an event touching the window's edge is kept.
Intersects_touching(block, workStart, workEnd) ==
  (block.end # NaN /\ workStart # NaN /\ block.end >= workStart)
    /\ (block.start # NaN /\ workEnd # NaN /\ block.start <= workEnd)

Intersects(block, workStart, workEnd) ==
  Gt(block.end, workStart) /\ Lt(block.start, workEnd)

Clip(block, workStart, workEnd) ==
  [type |-> "busy", title |-> block.title,
   start |-> MathMax(block.start, workStart), end |-> MathMin(block.end, workEnd)]

RECURSIVE BusyFrom(_, _, _, _)
BusyFrom(evs, j, workStart, workEnd) ==
  IF j > Len(evs) THEN <<>>
  ELSE LET rest == BusyFrom(evs, j + 1, workStart, workEnd)
           b == ToBusy(evs[j])
       IN  IF ~evs[j].allDay /\ Intersects(b, workStart, workEnd)
           THEN <<Clip(b, workStart, workEnd)>> \o rest
           ELSE rest

BusyBlocksOf(evs, date, cfg) ==
  BusyFrom(evs, 1, WorkStart(date, cfg), WorkEnd(date, cfg))

\* Variant: a block as long as the threshold counts as long.
IsLong_inclusive(duration, maxStandardBlockMinutes) == duration >= maxStandardBlockMinutes

IsLong(duration, maxStandardBlockMinutes) == duration > maxStandardBlockMinutes

buildBusyBlock(block, maxStandardBlockMinutes) ==
  LET duration == (block.end - block.start) \div MS_PER_MIN
  IN  [type |-> "busy", title |-> block.title,
       from |-> formatTime(block.start), to |-> formatTime(block.end),
       duration |-> duration, isLong |-> IsLong(duration, maxStandardBlockMinutes)]

buildFreeBlock(start, end) ==
  [type |-> "free", from |-> formatTime(start), to |-> formatTime(end),
   duration |-> (end - start) \div MS_PER_MIN]

\* The free block pushed for the gap [from, to), if any.
GapBlocks(from, to) ==
  IF Lt(from, to) /\ buildFreeBlock(from, to).duration > 0
  THEN <<buildFreeBlock(from, to)>>
  ELSE <<>>

\* Where the cursor stands after a busy block.
MoveCursor(cur, block) == block.end

\* ------------------------------------------------------------------------
\* Criteria report, one day (csvService.js)
\* ------------------------------------------------------------------------
Phrase(text, param) == [text |-> text, param |-> param]

\* const maxBlock = config?.maxStandardBlockMinutes || 60
MaxBlockOf(cfg) ==
  IF cfg.maxStandardBlockMinutes = 0 THEN DEFAULT_MAX_BLOCK ELSE cfg.maxStandardBlockMinutes

\* byEmail: the emails of the analysis in order of first appearance
RECURSIVE EmailsFrom(_, _, _)
EmailsFrom(analysis, j, acc) ==
  IF j > Len(analysis) THEN acc
  ELSE EmailsFrom(analysis, j + 1,
         IF \E n \in 1..Len(acc) : acc[n] = analysis[j].email
         THEN acc ELSE Append(acc, analysis[j].email))

IsEntryOf(entry, email) == entry.email = email
EntriesOf(analysis, email) == SelectSeq(analysis, LAMBDA e : IsEntryOf(e, email))

\* entries.find((e) => e?.date === dateStr): the blocks of the first such entry
DayEntryBlocks(entries, dateStr) ==
  IF \E j \in 1..Len(entries) : entries[j].date = dateStr
  THEN entries[CHOOSE j \in 1..Len(entries) :
                 /\ entries[j].date = dateStr
                 /\ \A n \in 1..(j - 1) : entries[n].date # dateStr].blocks
  ELSE <<>>

RECURSIVE SumBusy(_, _)
SumBusy(blocks, j) ==
  IF j > Len(blocks) THEN 0
  ELSE (IF blocks[j].type = "busy" THEN blocks[j].duration ELSE 0) + SumBusy(blocks, j + 1)

sumBusyMinutesForDate(entries, dateStr) == SumBusy(DayEntryBlocks(entries, dateStr), 1)

\* Variant: long blocks are looked for on every date of the user.
hasLongBlocksForDate_anyDate(entries, dateStr, maxBlock) ==
  \E n \in 1..Len(entries) :
    \E j \in 1..Len(entries[n].blocks) :
      entries[n].blocks[j].type = "busy" /\ entries[n].blocks[j].duration > maxBlock

hasLongBlocksForDate(entries, dateStr, maxBlock) ==
  LET blocks == DayEntryBlocks(entries, dateStr)
  IN  \E j \in 1..Len(blocks) : blocks[j].type = "busy" /\ blocks[j].duration > maxBlock

\* busyPercent >= 85 with busyPercent = (busyMin / TOTAL_MIN) * 100
BusyEnough(busyMin) == busyMin * 100 >= BUSY_THRESHOLD * TOTAL_MIN

\* busyPercent.toFixed(2), in hundredths of a percent
BusyPercentFixed(busyMin) == (busyMin * 10000 * 2 + TOTAL_MIN) \div (2 * TOTAL_MIN)

RECURSIVE JoinWith(_, _)
\* Variant: the parts are put one after the other without the separator.
JoinWith_noSeparator(parts, sep) == parts

\* parts.join(sep)
JoinWith(parts, sep) ==
  IF Len(parts) <= 1 THEN parts
  ELSE <<parts[1], sep>> \o JoinWith(Tail(parts), sep)

buildSlackMessageOneDay(c1, c2, maxBlock) ==
  IF c1 /\ c2
  THEN <<Phrase("hola, muchas gracias por mantener tu calendario actualizado", 0),
         Phrase("muchas gracias !", 0)>>
  ELSE LET parts ==
             (IF ~c1 THEN <<Phrase("veo que tienes bloques mayores a", maxBlock)>> ELSE <<>>)
               \o (IF ~c2 THEN <<Phrase("veo que tu calendario tiene unos espacios vacios", 0)>>
                   ELSE <<>>)
       IN  <<Phrase("hola, ", 0)>> \o JoinWith(parts, Phrase(" y ", 0))
             \o <<Phrase("muchas gracias !", 0)>>

CriteriaRow(email, entries, day, cfg) ==
  LET maxBlock == MaxBlockOf(cfg)
      busyMin == sumBusyMinutesForDate(entries, day)
      c1 == ~hasLongBlocksForDate(entries, day, maxBlock)
      c2 == BusyEnough(busyMin)
  IN  [email |-> email,
       passed |-> c1 /\ c2,
       criteria_passed |->
         (IF c1 THEN <<Phrase("Bloques <=", maxBlock)>> ELSE <<>>)
           \o (IF c2 THEN <<Phrase("Busy >= 85%", 0)>> ELSE <<>>),
       criteria_failed |->
         (IF c1 THEN <<>> ELSE <<Phrase("Bloques >", maxBlock)>>)
           \o (IF c2 THEN <<>> ELSE <<Phrase("Busy < 85%", 0)>>),
       slack_message |-> buildSlackMessageOneDay(c1, c2, maxBlock),
       date |-> day,
       busy_minutes |-> busyMin,
       busy_percent |-> BusyPercentFixed(busyMin)]

buildCriteriaCsv(analysis, dates, cfg) ==
  LET emails == EmailsFrom(analysis, 1, <<>>)
  IN  [j \in 1..Len(emails) |->
         CriteriaRow(emails[j], EntriesOf(analysis, emails[j]), dates[1], cfg)]

\* ------------------------------------------------------------------------
\* Criteria report, two days (the comparative build of csvService.js)
\* ------------------------------------------------------------------------
\* datesSorted of a selection that does not hold two dates: [null, null]
Null == "null"

\* Variant: the two dates are taken in the order given.
SortDates_asGiven(dates) == IF Len(dates) = 2 THEN dates ELSE <<Null, Null>>

\* selectedDates.length === 2 ? [...selectedDates].sort() : [null, null]
\* "YYYY-MM-DD" texts sort as their dates do.
SortDates(dates) ==
  IF Len(dates) = 2
  THEN IF DayIndex(dates[2]) < DayIndex(dates[1]) THEN <<dates[2], dates[1]>> ELSE dates
  ELSE <<Null, Null>>

\* if (!dateStr) return 0; then as in the one-day build
sumBusyMinutesForDateTwoDay(entries, dateStr) ==
  IF dateStr = Null THEN 0 ELSE SumBusy(DayEntryBlocks(entries, dateStr), 1)

\* any busy block of any entry of the user longer than maxBlock
checkHasLongBlocks(entries, maxBlock) ==
  \E n \in 1..Len(entries) :
    \E j \in 1..Len(entries[n].blocks) :
      entries[n].blocks[j].type = "busy" /\ entries[n].blocks[j].duration > maxBlock

\* (Math.max(0, TOTAL_MIN - busy) / TOTAL_MIN) * 100 <= ceiling
AvailabilityAtMost(busyMin, ceiling) ==
  LET free == IF TOTAL_MIN - busyMin >= 0 THEN TOTAL_MIN - busyMin ELSE 0
  IN  free * 100 <= ceiling * TOTAL_MIN

BlockPart == Phrase("veo que tienes bloques mayores a 60 min", 0)
BothDaysPart == Phrase("hoy disponibilidad de mas del 30%, y manana mayor del 70%", 0)
Day1Part == Phrase("hoy disponibilidad de mas del 30%", 0)
Day2Part == Phrase("manana disponibilidad de mas del 70%", 0)
Greeting == Phrase("hola, ", 0)
Connector == Phrase(" y ", 0)
Closing == Phrase("muchas gracias !", 0)
Congratulation ==
  <<Phrase("hola, muchas gracias por mantener tu calendario actualizado y dentro de los criterios", 0),
    Closing>>
GenericMessage ==
  <<Phrase("hola, hemos detectado algunas inconsistencias en tu calendario", 0), Closing>>

\* Variant: the day-2 fragment is not collected when only C3 fails.
SlackParts_noDay2(c1, c2, c3) ==
  (IF ~c1 THEN <<BlockPart>> ELSE <<>>)
    \o (IF ~c2 /\ ~c3 THEN <<BothDaysPart>>
        ELSE IF ~c2 THEN <<Day1Part>>
        ELSE <<>>)

\* the parts array of buildSlackMessage
SlackParts(c1, c2, c3) ==
  (IF ~c1 THEN <<BlockPart>> ELSE <<>>)
    \o (IF ~c2 /\ ~c3 THEN <<BothDaysPart>>
        ELSE IF ~c2 THEN <<Day1Part>>
        ELSE IF ~c3 THEN <<Day2Part>>
        ELSE <<>>)

buildSlackMessage(c1, c2, c3) ==
  IF c1 /\ c2 /\ c3 THEN Congratulation
  ELSE LET parts == SlackParts(c1, c2, c3)
       IN  IF Len(parts) = 0 THEN GenericMessage
           ELSE <<Greeting>> \o JoinWith(parts, Connector) \o <<Closing>>

\* day1 || ""
OrEmpty(d) == IF d = Null THEN "" ELSE d

\* Variant: a rule that fails is also listed among the passed ones.
ReasonsPassed_all(c1, c2, c3) ==
  <<Phrase("Bloques maximos de 60 minutos", 0),
    Phrase("Disponibilidad dia 1 menor o igual al 30%", 0),
    Phrase("Disponibilidad dia 2 menor o igual al 70%", 0)>>

ReasonsPassed(c1, c2, c3) ==
  (IF c1 THEN <<Phrase("Bloques maximos de 60 minutos", 0)>> ELSE <<>>)
    \o (IF c2 THEN <<Phrase("Disponibilidad dia 1 menor o igual al 30%", 0)>> ELSE <<>>)
    \o (IF c3 THEN <<Phrase("Disponibilidad dia 2 menor o igual al 70%", 0)>> ELSE <<>>)

ReasonsFailed(c1, c2, c3) ==
  (IF c1 THEN <<>> ELSE <<Phrase("Bloques mayores a 60 minutos", 0)>>)
    \o (IF c2 THEN <<>> ELSE <<Phrase("Disponibilidad dia 1 mayor al 30%", 0)>>)
    \o (IF c3 THEN <<>> ELSE <<Phrase("Disponibilidad dia 2 mayor al 70%", 0)>>)

CriteriaRowTwoDay(email, entries, day1, day2, cfg) ==
  LET maxBlock == MaxBlockOf(cfg)
      busyDay1 == sumBusyMinutesForDateTwoDay(entries, day1)
      busyDay2 == sumBusyMinutesForDateTwoDay(entries, day2)
      c1 == ~checkHasLongBlocks(entries, maxBlock)
      c2 == AvailabilityAtMost(busyDay1, LOW_DAY_CEILING)
      c3 == AvailabilityAtMost(busyDay2, HIGH_DAY_CEILING)
  IN  [email |-> email,
       passed |-> c1 /\ c2 /\ c3,
       criteria_passed |-> ReasonsPassed(c1, c2, c3),
       criteria_failed |-> ReasonsFailed(c1, c2, c3),
       slack_message |-> buildSlackMessage(c1, c2, c3),
       day1 |-> OrEmpty(day1),
       day2 |-> OrEmpty(day2)]

buildCriteriaCsvTwoDay(analysis, dates, cfg) ==
  LET datesSorted == SortDates(dates)
      emails == EmailsFrom(analysis, 1, <<>>)
  IN  [j \in 1..Len(emails) |->
         CriteriaRowTwoDay(emails[j], EntriesOf(analysis, emails[j]),
                           datesSorted[1], datesSorted[2], cfg)]

\* ------------------------------------------------------------------------
\* Fetching (calendarApi.js) and the downloaded reports (csvService.js)
\* fetchEventsForUser is one request here: its pages either all arrive or
\* the first failing page rejects the whole call.
\* ------------------------------------------------------------------------
\* parseEmailsFromCsvText returns the distinct emails of the uploaded file.
EmailLists == {<<(<<"a">>)>>, <<(<<"a">>), (<<"b">>)>>}
FetchEmailLists == {<<(<<"a">>), (<<"b">>), (<<"c">>)>>}

\* err.status of an error that carries none (a network failure); `|| null`
NoStatus == 0

\* What a request can fail with: !res.ok with the HTTP status, or fetch itself
ServerErrors ==
  { [status |-> 404, message |-> Phrase("Calendar API error:", 404)],
    [status |-> 403, message |-> Phrase("Calendar API error:", 403)],
    [status |-> 500, message |-> Phrase("Calendar API error:", 500)],
    [status |-> NoStatus, message |-> Phrase("Failed to fetch", 0)] }

\* An event from 16:00 of d1 to 08:00 of d2: it lies inside the fetched window
\* of either day.
SpanningEvent(id) ==
  [calendarId |-> id, start |-> [date |-> "d1", min |-> 960],
   end |-> [date |-> "d2", min |-> 480], allDay |-> FALSE]

\* What a calendar can hold inside the fetched day: nothing, one event of that
\* day, or the event that spans both days
ServerEvents(id, date) ==
  { <<>>, <<TimedEvent(id, date, <<420, 879>>)>>, <<SpanningEvent(id)>> }

Pending == [outcome |-> "pending", events |-> <<>>, status |-> NoStatus]

\* the object pushed in the catch block
FailureRecord(id, err) ==
  [calendarId |-> id,
   status |-> err.status,
   reason |-> IF err.status = 404 THEN "not_found_or_no_access"
              ELSE IF err.status = 403 THEN "forbidden"
              ELSE "other_error",
   message |-> err.message]

\* Variant: the push replaces what the other catch blocks pushed.
PushFailure_overwrite(list, rec) == <<rec>>

\* failures.push(...)
PushFailure(list, rec) == Append(list, rec)

\* results.flat(): the promises' values in the order of calendarIds
RECURSIVE Flat(_, _)
Flat(resp, n) ==
  IF n > Len(resp) THEN <<>> ELSE resp[n].events \o Flat(resp, n + 1)

AllSettled(resp) == \A n \in 1..Len(resp) : resp[n].outcome # "pending"

StandardHeader ==
  [email |-> "email", date |-> "date", type |-> "type", title |-> "title",
   from |-> "from", to |-> "to", duration_minutes |-> "duration_minutes",
   is_long |-> "is_long"]

\* the row of one block; the one-day build writes "" for a block that is not
\* long and skips a block that is neither busy nor free, the two-day build
\* writes "false" and takes every other block for a free one
BlockRows(b, entry, block) ==
  IF block.type = "busy"
  THEN << [email |-> entry.email, date |-> entry.date, type |-> "busy",
           title |-> block.title, from |-> block.from, to |-> block.to,
           duration_minutes |-> block.duration,
           is_long |-> IF block.isLong THEN "true"
                       ELSE IF b = "oneDay" THEN "" ELSE "false"] >>
  ELSE IF b = "twoDay" \/ block.type = "free"
  THEN << [email |-> entry.email, date |-> entry.date, type |-> "free",
           title |-> "", from |-> block.from, to |-> block.to,
           duration_minutes |-> block.duration, is_long |-> ""] >>
  ELSE <<>>

RECURSIVE EntryRows(_, _, _)
EntryRows(b, entry, j) ==
  IF j > Len(entry.blocks) THEN <<>>
  ELSE BlockRows(b, entry, entry.blocks[j]) \o EntryRows(b, entry, j + 1)

\* if (!email || !date || !Array.isArray(blocks)) continue;   (one-day build)
SkipsEntry(b, entry) == b = "oneDay" /\ (entry.email = <<>> \/ entry.date = "")

RECURSIVE AnalysisRows(_, _, _)
AnalysisRows(b, analysis, n) ==
  IF n > Len(analysis) THEN <<>>
  ELSE (IF SkipsEntry(b, analysis[n]) THEN <<>> ELSE EntryRows(b, analysis[n], 1))
         \o AnalysisRows(b, analysis, n + 1)

\* one error row per element of failures
StandardErrorRows(fails) ==
  [n \in 1..Len(fails) |->
     [email |-> fails[n].calendarId, date |-> "", type |-> "error",
      title |-> fails[n].message, from |-> "", to |-> "",
      duration_minutes |-> "", is_long |-> ""]]

buildCsvFromAnalysis(b, analysis, fails) ==
  <<StandardHeader>> \o AnalysisRows(b, analysis, 1) \o StandardErrorRows(fails)

\* The criteria report as downloaded; of its columns the model keeps email,
\* passed and slack_message.
CriteriaHeader == [email |-> "email", passed |-> "passed", slack_message |-> "slack_message"]

\* passed ? "true" : "false"
VerdictRows(verdicts) ==
  [n \in 1..Len(verdicts) |->
     [email |-> verdicts[n].email,
      passed |-> IF verdicts[n].passed THEN "true" ELSE "false",
      slack_message |-> verdicts[n].slack_message]]

CriteriaErrorRows(fails) ==
  [n \in 1..Len(fails) |->
     [email |-> fails[n].calendarId, passed |-> "error", slack_message |-> fails[n].message]]

buildCriteriaReport(b, analysis, fails, dates, cfg) ==
  <<CriteriaHeader>>
    \o VerdictRows(IF b = "oneDay" THEN buildCriteriaCsv(analysis, dates, cfg)
                   ELSE buildCriteriaCsvTwoDay(analysis, dates, cfg))
    \o CriteriaErrorRows(fails)

\* ------------------------------------------------------------------------
\* The popup, the access token, the stored configuration and the background
\* listener
\* ------------------------------------------------------------------------
\* At most this many report requests, connect attempts and storage calls are
\* outstanding at a time.
MaxPending == 2

\* At most this many FileReaders are reading at a time.
MaxReaders == 1

\* The clock advances this many seconds.
MaxTicks == 3

MS_PER_SEC == 1000

\* A file is the sequence of its trimmed non-empty lines; a line is an address
\* or the header line, whose only column is "email".
Header == <<"email">>

CsvTexts ==
  { <<>>,
    << Header >>,
    << Header, <<"a">> >>,
    << <<"a">>, <<"a">> >>,
    << <<"a">>, <<"b">> >> }

\* Array.from(new Set(emails)): first occurrences, in order
RECURSIVE Unique(_, _)
Unique(list, n) ==
  IF n > Len(list) THEN <<>>
  ELSE (IF \E m \in 1..(n - 1) : list[m] = list[n] THEN <<>> ELSE << list[n] >>)
         \o Unique(list, n + 1)

\* parseEmailsFromCsvText
parseEmailsFromCsvText(lines) ==
  IF Len(lines) = 0 THEN <<>>
  ELSE Unique(IF lines[1] = Header THEN Tail(lines) ELSE lines, 1)

\* updateGenerateButtonState: the value written to generateBtn.disabled and
\* criteriaBtn.disabled
updateGenerateButtonState(authenticated, emails) ==
  ~(authenticated /\ Len(emails) > 0)

\* An outstanding request, reader or call leaves its list when its callback runs.
RemoveAt(list, n) == SubSeq(list, 1, n - 1) \o SubSeq(list, n + 1, Len(list))

\* --- googleAuth.js ---
\* The slot TOKEN_KEY of chrome.storage.local: <<>> when nothing is stored
\* (`res[TOKEN_KEY] || null`), else the token object.
TokenSlots == { <<>>,
    << [access_token |-> "t0", expires_at |-> 0] >>,
    << [access_token |-> "t0", expires_at |-> MS_PER_SEC] >> }

\* now >= tokenObj.expires_at; every comparison with NaN is false
isTokenExpired(tokenObj, now) ==
  IF tokenObj.expires_at = NaN THEN FALSE ELSE now >= tokenObj.expires_at

\* stored && !isTokenExpired(stored)
hasValidToken(slot, now) == Len(slot) > 0 /\ ~isTokenExpired(slot[1], now)

\* What launchWebAuthFlow can call back with: chrome.runtime.lastError set, no
\* redirect URL, a redirect URL whose fragment has no access_token, or one that
\* has it, with expires_in (seconds) or without; parseInt of a missing
\* expires_in is NaN.
Redirects ==
  { [lastError |-> TRUE, url |-> FALSE, access_token |-> "", expires_in |-> NaN],
    [lastError |-> FALSE, url |-> FALSE, access_token |-> "", expires_in |-> NaN],
    [lastError |-> FALSE, url |-> TRUE, access_token |-> "", expires_in |-> 2] }
  \cup
  { [lastError |-> FALSE, url |-> TRUE, access_token |-> t, expires_in |-> e] :
      t \in {"t1", "t2"}, e \in {1, 2, NaN} }

\* The rejection of authenticateUser for a callback value, "" if there is none.
OAuthError(redirect) ==
  IF redirect.lastError THEN "lastError"
  ELSE IF ~redirect.url THEN "Empty redirect URL"
  ELSE IF redirect.access_token = "" THEN "No access_token found in redirect URL"
  ELSE ""

\* { access_token, expires_at: Date.now() + expiresIn * 1000 }
NewToken(redirect, now) ==
  [access_token |-> redirect.access_token,
   expires_at |-> IF redirect.expires_in = NaN THEN NaN
                  ELSE now + redirect.expires_in * MS_PER_SEC]

\* What chrome.storage.local gives back for a saved token object. A NaN is not
\* a storable number: it comes back as it was or dropped (both compare false
\* with everything), or as null, which compares as 0.
StoredForms(tokenObj) ==
  IF tokenObj.expires_at = NaN
  THEN { tokenObj, [tokenObj EXCEPT !.expires_at = 0] }
  ELSE { tokenObj }

\* --- storage.js ---
DEFAULT_CONFIG ==
  [workdayStart |-> <<7, 0>>, workdayEnd |-> <<17, 0>>, minBlockMinutes |-> 30,
   maxStandardBlockMinutes |-> 60, googleClientId |-> ""]

\* `result[CONFIG_KEY] || {}` when nothing is stored
NothingStored == [key \in {} |-> ""]

\* { ...a, ...b }
Merge(a, b) ==
  [key \in DOMAIN a \cup DOMAIN b |-> IF key \in DOMAIN b THEN b[key] ELSE a[key]]

\* getConfig: { ...DEFAULT_CONFIG, ...stored }
getConfig(stored) == Merge(DEFAULT_CONFIG, stored)

\* What the storage holds when the extension starts: nothing, the object of
\* an earlier version without googleClientId, or a saved configuration.
StoredConfigs ==
  { NothingStored,
    [workdayStart |-> <<8, 0>>, workdayEnd |-> <<17, 0>>],
    [DEFAULT_CONFIG EXCEPT !.maxStandardBlockMinutes = 459] }

\* The arguments of saveConfig: pairwise disjoint keys.
Partials ==
  { [workdayStart |-> <<8, 0>>],
    [maxStandardBlockMinutes |-> 45],
    [googleClientId |-> "id"] }

StorageCall(op, partial) ==
  [op |-> op, partial |-> partial, at |-> "called",
   current |-> NothingStored, result |-> NothingStored]

\* --- background.js ---
MessageTypes == {"GENERATE_REPORT", "GENERATE_CRITERIA_REPORT", "OTHER"}

\* Variant: only GENERATE_REPORT has a handler.
HandlerFor_reportOnly(type) ==
  IF type = "GENERATE_REPORT" THEN "handleGenerateReport"
  ELSE "none"

\* The listener's dispatch on message?.type
HandlerFor(type) ==
  IF type = "GENERATE_REPORT" THEN "handleGenerateReport"
  ELSE IF type = "GENERATE_CRITERIA_REPORT" THEN "handleGenerateCriteriaReport"
  ELSE "none"

\* message.payload: absent, with emails that is not an array, with an empty
\* list, with addresses and a date, with addresses and no date.
Payloads ==
  { [present |-> FALSE, isArray |-> FALSE, emails |-> <<>>, dates |-> <<>>],
    [present |-> TRUE, isArray |-> FALSE, emails |-> <<>>, dates |-> <<"d1">>],
    [present |-> TRUE, isArray |-> TRUE, emails |-> <<>>, dates |-> <<"d1">>],
    [present |-> TRUE, isArray |-> TRUE, emails |-> << <<"a">> >>, dates |-> <<"d1">>],
    [present |-> TRUE, isArray |-> TRUE, emails |-> << <<"a">> >>, dates |-> <<>>] }

\* The handlers' first statements: the one-day build destructures
\* `payload || {}`, the two-day build destructures `payload`, which throws a
\* TypeError when there is none; then the check of emails. "" when they pass.
ValidationError(b, payload) ==
  IF b = "twoDay" /\ ~payload.present
  THEN "Cannot destructure property 'emails' of 'payload' as it is undefined."
  ELSE IF ~payload.isArray \/ Len(payload.emails) = 0 THEN "No emails provided."
  ELSE ""

\* fetchAllEventsForPayload before its first request: the one-day build throws
\* without a selected date, the two-day build falls back to dateRange.
FetchError(b, payload) ==
  IF b = "oneDay" /\ Len(payload.dates) = 0 THEN "No selected date provided."
  ELSE ""

\* sendResponse({ ok: true }) / sendResponse({ ok: false, error: err.message })
Response(error) == [ok |-> error = "", error |-> error]

\* The state of the popup, the token, the storage and the listener when they
\* take no part.
NoPopup ==
  /\ isAuthenticated = FALSE
  /\ emailsFromCsv = <<>>
  /\ generateDisabled = TRUE
  /\ criteriaDisabled = TRUE
  /\ inFlight = <<>>
  /\ opened = FALSE
  /\ connecting = 0
  /\ readers = <<>>
  /\ authStatus = ""
  /\ csvInfo = ""

NoAuth ==
  /\ storedToken = <<>>
  /\ clock = 0
  /\ authPc = "idle"
  /\ authResult = ""
  /\ launched = FALSE
  /\ tokenBefore = <<>>
  /\ nowAtCheck = 0
  /\ pendingToken = <<>>

NoStorage ==
  /\ storedConfig = NothingStored
  /\ calls = <<>>

NoListener ==
  /\ received = [type |-> "OTHER",
                 payload |-> [present |-> FALSE, isArray |-> FALSE,
                              emails |-> <<>>, dates |-> <<>>]]
  /\ handlerPc = "off"
  /\ effects = <<>>
  /\ sent = <<>>
  /\ channel = "none"
  /\ thrown = ""

NoHost == NoPopup /\ NoAuth /\ NoStorage /\ NoListener

\* The state of the variables of the fetch when no fetch is modelled.
NoFetch ==
  /\ build = "none"
  /\ calendarIds = <<>>
  /\ dateIdx = 1
  /\ responses = <<>>
  /\ failures = <<>>
  /\ fetched = [events |-> <<>>, failures |-> <<>>]
  /\ allFailures = <<>>
  /\ csv = <<>>

\* ------------------------------------------------------------------------
\* Initial state
\* ------------------------------------------------------------------------
Init ==
  /\ events \in {WithSummary(l) : l \in EventLists}
  /\ config \in Configs
  /\ pc = "analyze"
  /\ grouped = <<>>
  /\ k = 1
  /\ busyBlocks = <<>>
  /\ i = 1
  /\ cursor = NaN
  /\ allBlocks = <<>>
  /\ results = <<>>
  /\ selectedDates = <<>>
  /\ rows = <<>>
  /\ NoFetch
  /\ NoHost

\* ------------------------------------------------------------------------
\* analyzeCalendar
\* ------------------------------------------------------------------------
\* if (!events || events.length === 0) return [];
AnalyzeEmpty ==
  /\ pc = "analyze"
  /\ Len(events) = 0
  /\ pc' = "done"
  /\ UNCHANGED <<events, config, grouped, k, busyBlocks, i, cursor, allBlocks,
                 results, selectedDates, rows>>
  /\ UNCHANGED fetchVars
  /\ UNCHANGED hostVars

\* const grouped = groupEventsByUserAndDay(events); const results = [];
AnalyzeGroup ==
  /\ pc = "analyze"
  /\ Len(events) > 0
  /\ grouped' = groupEventsByUserAndDay(events)
  /\ k' = 1
  /\ pc' = "day"
  /\ UNCHANGED <<events, config, busyBlocks, i, cursor, allBlocks, results,
                 selectedDates, rows>>
  /\ UNCHANGED fetchVars
  /\ UNCHANGED hostVars

\* analyzeDayBlocks, up to the loop: the window, the busy blocks, the cursor.
BeginDay ==
  /\ pc = "day"
  /\ LET g == parseGroupKey(grouped[k].key)
     IN  /\ busyBlocks' = BusyBlocksOf(grouped[k].evs, g.date, config)
         /\ cursor' = WorkStart(g.date, config)
  /\ allBlocks' = <<>>
  /\ i' = 1
  /\ pc' = "walk"
  /\ UNCHANGED <<events, config, grouped, k, results, selectedDates, rows>>
  /\ UNCHANGED fetchVars
  /\ UNCHANGED hostVars

\* One iteration of `for (const block of busyBlocks)`.
WalkStep ==
  /\ pc = "walk"
  /\ i <= Len(busyBlocks)
  /\ LET block == busyBlocks[i]
     IN  /\ allBlocks' = allBlocks \o GapBlocks(cursor, block.start)
                           \o <<buildBusyBlock(block, config.maxStandardBlockMinutes)>>
         /\ cursor' = MoveCursor(cursor, block)
  /\ i' = i + 1
  /\ UNCHANGED <<events, config, pc, grouped, k, busyBlocks, results,
                 selectedDates, rows>>
  /\ UNCHANGED fetchVars
  /\ UNCHANGED hostVars

\* After the loop: the final gap, the return, and results.push in analyzeCalendar.
FinishDay ==
  /\ pc = "walk"
  /\ i > Len(busyBlocks)
  /\ LET g == parseGroupKey(grouped[k].key)
         blocks == allBlocks \o GapBlocks(cursor, WorkEnd(g.date, config))
     IN  results' = Append(results, [email |-> g.email, date |-> g.date, blocks |-> blocks])
  /\ allBlocks' = <<>>
  /\ k' = k + 1
  /\ pc' = IF k + 1 > Len(grouped) THEN "done" ELSE "day"
  /\ UNCHANGED <<events, config, grouped, busyBlocks, i, cursor, selectedDates, rows>>
  /\ UNCHANGED fetchVars
  /\ UNCHANGED hostVars

\* buildCriteriaCsv on the finished analysis, for one selected date.
BuildCriteria ==
  /\ pc = "done"
  /\ \E d \in Days :
       /\ selectedDates' = <<d>>
       /\ rows' = buildCriteriaCsv(results, <<d>>, config)
  /\ pc' = "reported"
  /\ UNCHANGED <<events, config, grouped, k, busyBlocks, i, cursor, allBlocks, results>>
  /\ UNCHANGED fetchVars
  /\ UNCHANGED hostVars

Next ==
  \/ AnalyzeEmpty
  \/ AnalyzeGroup
  \/ BeginDay
  \/ WalkStep
  \/ FinishDay
  \/ BuildCriteria

Spec == Init /\ [][Next]_vars

\* ------------------------------------------------------------------------
\* The comparative criteria report: the same analysis, then either build of
\* buildCriteriaCsv on the finished analysis.
\* ------------------------------------------------------------------------
InitTwoDay ==
  /\ events \in {WithSummary(l) : l \in TwoDayEventLists}
  /\ config \in TwoDayConfigs
  /\ pc = "analyze"
  /\ grouped = <<>>
  /\ k = 1
  /\ busyBlocks = <<>>
  /\ i = 1
  /\ cursor = NaN
  /\ allBlocks = <<>>
  /\ results = <<>>
  /\ selectedDates = <<>>
  /\ rows = <<>>
  /\ NoFetch
  /\ NoHost

\* The one-day report under a configuration saved with workdayStart >= workdayEnd.
InitInvalidConfig ==
  /\ events \in {WithSummary(l) : l \in EventLists}
  /\ config \in InvalidConfigs
  /\ pc = "analyze"
  /\ grouped = <<>>
  /\ k = 1
  /\ busyBlocks = <<>>
  /\ i = 1
  /\ cursor = NaN
  /\ allBlocks = <<>>
  /\ results = <<>>
  /\ selectedDates = <<>>
  /\ rows = <<>>
  /\ NoFetch
  /\ NoHost

SpecInvalidConfig == InitInvalidConfig /\ [][Next]_vars

\* buildCriteriaCsv (two-day build) on the finished analysis.
BuildCriteriaTwoDay ==
  /\ pc = "done"
  /\ \E sel \in DateSelections :
       /\ selectedDates' = sel
       /\ rows' = buildCriteriaCsvTwoDay(results, sel, config)
  /\ pc' = "reported"
  /\ UNCHANGED <<events, config, grouped, k, busyBlocks, i, cursor, allBlocks, results>>
  /\ UNCHANGED fetchVars
  /\ UNCHANGED hostVars

NextTwoDay ==
  \/ AnalyzeEmpty
  \/ AnalyzeGroup
  \/ BeginDay
  \/ WalkStep
  \/ FinishDay
  \/ BuildCriteria
  \/ BuildCriteriaTwoDay

SpecTwoDay == InitTwoDay /\ [][NextTwoDay]_vars

\* ------------------------------------------------------------------------
\* Report generation from the popup's request: fetch, analyse, download
\* ------------------------------------------------------------------------
FetchStart(lists) ==
  /\ events = <<>>
  /\ grouped = <<>>
  /\ k = 1
  /\ busyBlocks = <<>>
  /\ i = 1
  /\ cursor = NaN
  /\ allBlocks = <<>>
  /\ results = <<>>
  /\ rows = <<>>
  /\ calendarIds \in lists
  /\ dateIdx = 1
  /\ responses = <<>>
  /\ failures = <<>>
  /\ fetched = [events |-> <<>>, failures |-> <<>>]
  /\ allFailures = <<>>
  /\ csv = <<>>
  /\ pc = "fetch"

InitReport ==
  /\ config \in {c \in Configs : c.workdayStart = <<7, 0>> /\ c.maxStandardBlockMinutes = 60}
  /\ \/ build = "oneDay" /\ selectedDates = <<"d1">>
     \/ build = "twoDay" /\ selectedDates = <<"d1", "d2">>
  /\ FetchStart(EmailLists)
  /\ NoHost

\* fetchEventsForUsers is called: failures = [], one request per calendar.
StartFetch ==
  /\ pc = "fetch"
  /\ responses' = Append(responses, [n \in 1..Len(calendarIds) |-> Pending])
  /\ failures' = <<>>
  /\ pc' = "await"
  /\ UNCHANGED <<events, config, grouped, k, busyBlocks, i, cursor, allBlocks, results,
                 selectedDates, rows, build, calendarIds, dateIdx, fetched, allFailures, csv>>
  /\ UNCHANGED hostVars

\* A request comes back with the calendar's events: the promise is fulfilled
\* with them.
SettleOk ==
  /\ pc = "await"
  /\ \E n \in 1..Len(calendarIds) :
       /\ responses[dateIdx][n].outcome = "pending"
       /\ \E evs \in ServerEvents(calendarIds[n], selectedDates[dateIdx]) :
            responses' = [responses EXCEPT ![dateIdx][n] =
                            [outcome |-> "ok", events |-> evs, status |-> NoStatus]]
  /\ UNCHANGED <<events, config, pc, grouped, k, busyBlocks, i, cursor, allBlocks, results,
                 selectedDates, rows, build, calendarIds, dateIdx, failures, fetched,
                 allFailures, csv>>
  /\ UNCHANGED hostVars

\* A request fails: the catch block pushes the failure and the promise is
\* fulfilled with [].
SettleError ==
  /\ pc = "await"
  /\ \E n \in 1..Len(calendarIds) :
       /\ responses[dateIdx][n].outcome = "pending"
       /\ \E err \in ServerErrors :
            /\ responses' = [responses EXCEPT ![dateIdx][n] =
                               [outcome |-> "error", events |-> <<>>, status |-> err.status]]
            /\ failures' = PushFailure(failures, FailureRecord(calendarIds[n], err))
  /\ UNCHANGED <<events, config, pc, grouped, k, busyBlocks, i, cursor, allBlocks, results,
                 selectedDates, rows, build, calendarIds, dateIdx, fetched, allFailures, csv>>
  /\ UNCHANGED hostVars

\* Promise.all resolves once every promise is fulfilled; results.flat().
ResolveFetch ==
  /\ pc = "await"
  /\ AllSettled(responses[dateIdx])
  /\ fetched' = [events |-> Flat(responses[dateIdx], 1), failures |-> failures]
  /\ pc' = "resolved"
  /\ UNCHANGED <<events, config, grouped, k, busyBlocks, i, cursor, allBlocks, results,
                 selectedDates, rows, build, calendarIds, dateIdx, responses, failures,
                 allFailures, csv>>
  /\ UNCHANGED hostVars

\* One-day build: return { allEvents: events, allFailures: failures }.
CollectOneDay ==
  /\ pc = "resolved"
  /\ build = "oneDay"
  /\ events' = WithSummary(fetched.events)
  /\ allFailures' = fetched.failures
  /\ pc' = "analyze"
  /\ UNCHANGED <<config, grouped, k, busyBlocks, i, cursor, allBlocks, results,
                 selectedDates, rows, build, calendarIds, dateIdx, responses, failures,
                 fetched, csv>>
  /\ UNCHANGED hostVars

\* Two-day build: the body of `for (const dateStr of selectedDates)` after the
\* await, then the next date or the return.
CollectTwoDay ==
  /\ pc = "resolved"
  /\ build = "twoDay"
  /\ events' = WithSummary(events \o fetched.events)
  /\ allFailures' = allFailures \o fetched.failures
  /\ IF dateIdx < Len(selectedDates)
     THEN dateIdx' = dateIdx + 1 /\ pc' = "fetch"
     ELSE dateIdx' = dateIdx /\ pc' = "analyze"
  /\ UNCHANGED <<config, grouped, k, busyBlocks, i, cursor, allBlocks, results,
                 selectedDates, rows, build, calendarIds, responses, failures, fetched, csv>>
  /\ UNCHANGED hostVars

\* handleGenerateReport: downloadCsvFromAnalysis(analysis, allFailures, ...)
BuildStandardReport ==
  /\ pc = "done"
  /\ csv' = buildCsvFromAnalysis(build, results, allFailures)
  /\ pc' = "reported"
  /\ UNCHANGED <<events, config, grouped, k, busyBlocks, i, cursor, allBlocks, results,
                 selectedDates, rows, build, calendarIds, dateIdx, responses, failures,
                 fetched, allFailures>>
  /\ UNCHANGED hostVars

\* handleGenerateCriteriaReport: downloadCriteriaCsv(analysis, allFailures, ...)
BuildCriteriaReport ==
  /\ pc = "done"
  /\ csv' = buildCriteriaReport(build, results, allFailures, selectedDates, config)
  /\ pc' = "reported"
  /\ UNCHANGED <<events, config, grouped, k, busyBlocks, i, cursor, allBlocks, results,
                 selectedDates, rows, build, calendarIds, dateIdx, responses, failures,
                 fetched, allFailures>>
  /\ UNCHANGED hostVars

NextReport ==
  \/ StartFetch
  \/ SettleOk
  \/ SettleError
  \/ ResolveFetch
  \/ CollectOneDay
  \/ CollectTwoDay
  \/ AnalyzeEmpty
  \/ AnalyzeGroup
  \/ BeginDay
  \/ WalkStep
  \/ FinishDay
  \/ BuildStandardReport
  \/ BuildCriteriaReport

SpecReport == InitReport /\ [][NextReport]_vars

\* One call of fetchEventsForUsers for three calendars, up to its resolution.
InitFetch ==
  /\ config \in {c \in Configs : c.workdayStart = <<7, 0>> /\ c.maxStandardBlockMinutes = 60}
  /\ build = "oneDay"
  /\ selectedDates = <<"d1">>
  /\ FetchStart(FetchEmailLists)
  /\ NoHost

NextFetch ==
  \/ StartFetch
  \/ SettleOk
  \/ SettleError
  \/ ResolveFetch

SpecFetch == InitFetch /\ [][NextFetch]_vars

\* ------------------------------------------------------------------------
\* The popup: its event handlers, each run to completion, in any order
\* ------------------------------------------------------------------------
\* No report is being analysed: the variables of the analysis and of the fetch
\* rest, under build b.
HostCore(b) ==
  /\ events = <<>>
  /\ config \in {c \in Configs : c.workdayStart = <<7, 0>> /\ c.maxStandardBlockMinutes = 60}
  /\ pc = "host"
  /\ grouped = <<>>
  /\ k = 1
  /\ busyBlocks = <<>>
  /\ i = 1
  /\ cursor = NaN
  /\ allBlocks = <<>>
  /\ results = <<>>
  /\ selectedDates = <<>>
  /\ rows = <<>>
  /\ build = b
  /\ calendarIds = <<>>
  /\ dateIdx = 1
  /\ responses = <<>>
  /\ failures = <<>>
  /\ fetched = [events |-> <<>>, failures |-> <<>>]
  /\ allFailures = <<>>
  /\ csv = <<>>

\* The popup has just been opened; the markup decides whether a button starts
\* disabled.
InitPopup ==
  /\ HostCore("oneDay")
  /\ isAuthenticated = FALSE
  /\ emailsFromCsv = <<>>
  /\ generateDisabled \in BOOLEAN
  /\ criteriaDisabled \in BOOLEAN
  /\ inFlight = <<>>
  /\ opened = FALSE
  /\ connecting = 0
  /\ readers = <<>>
  /\ authStatus = ""
  /\ csvInfo = ""
  /\ storedToken \in TokenSlots
  /\ clock = 0
  /\ authPc = "idle"
  /\ authResult = ""
  /\ launched = FALSE
  /\ tokenBefore = <<>>
  /\ nowAtCheck = 0
  /\ pendingToken = <<>>
  /\ NoStorage
  /\ NoListener

\* DOMContentLoaded: hasValidToken, then updateGenerateButtonState
PopupOpen ==
  /\ ~opened
  /\ isAuthenticated' = (isAuthenticated \/ hasValidToken(storedToken, clock))
  /\ generateDisabled' = updateGenerateButtonState(isAuthenticated', emailsFromCsv)
  /\ criteriaDisabled' = updateGenerateButtonState(isAuthenticated', emailsFromCsv)
  /\ opened' = TRUE
  /\ authStatus' = IF hasValidToken(storedToken, clock) THEN "Connected to Google Calendar" ELSE authStatus
  /\ UNCHANGED <<emailsFromCsv, inFlight, connecting, readers, csvInfo>>
  /\ UNCHANGED <<coreVars, fetchVars, authVars, storageVars, listenerVars>>

\* connectBtn click: authenticateUser is called
ConnectClick ==
  /\ connecting < MaxPending
  /\ connecting' = connecting + 1
  /\ UNCHANGED <<isAuthenticated, emailsFromCsv, generateDisabled, criteriaDisabled,
                 inFlight, opened, readers, authStatus, csvInfo>>
  /\ UNCHANGED <<coreVars, fetchVars, authVars, storageVars, listenerVars>>

\* authenticateUser resolved: the token is saved, isAuthenticated = true,
\* updateGenerateButtonState
ConnectOk ==
  /\ connecting > 0
  /\ \E redirect \in Redirects :
       /\ OAuthError(redirect) = ""
       /\ \E form \in StoredForms(NewToken(redirect, clock)) : storedToken' = << form >>
  /\ connecting' = connecting - 1
  /\ isAuthenticated' = TRUE
  /\ generateDisabled' = updateGenerateButtonState(TRUE, emailsFromCsv)
  /\ criteriaDisabled' = updateGenerateButtonState(TRUE, emailsFromCsv)
  /\ authStatus' = "Connected to Google Calendar"
  /\ UNCHANGED <<emailsFromCsv, inFlight, opened, readers, csvInfo>>
  /\ UNCHANGED <<clock, authPc, authResult, launched, tokenBefore, nowAtCheck, pendingToken>>
  /\ UNCHANGED <<coreVars, fetchVars, storageVars, listenerVars>>

\* authenticateUser rejected: only the status text changes
ConnectFail ==
  /\ connecting > 0
  /\ \E redirect \in Redirects : OAuthError(redirect) # ""
  /\ connecting' = connecting - 1
  /\ authStatus' = "Authentication failed."
  /\ UNCHANGED <<isAuthenticated, emailsFromCsv, generateDisabled, criteriaDisabled,
                 inFlight, opened, readers, csvInfo>>
  /\ UNCHANGED <<coreVars, fetchVars, authVars, storageVars, listenerVars>>

\* csvInput change without a file: emailsFromCsv = [], updateGenerateButtonState
CsvCleared ==
  /\ emailsFromCsv' = <<>>
  /\ generateDisabled' = updateGenerateButtonState(isAuthenticated, <<>>)
  /\ criteriaDisabled' = updateGenerateButtonState(isAuthenticated, <<>>)
  /\ csvInfo' = ""
  /\ UNCHANGED <<isAuthenticated, inFlight, opened, connecting, readers, authStatus>>
  /\ UNCHANGED <<coreVars, fetchVars, authVars, storageVars, listenerVars>>

\* csvInput change with a file: emailsFromCsv = [], reader.readAsText(file)
CsvSelected ==
  /\ Len(readers) < MaxReaders
  /\ \E lines \in CsvTexts : readers' = Append(readers, lines)
  /\ emailsFromCsv' = <<>>
  /\ csvInfo' = ""
  /\ UNCHANGED <<isAuthenticated, generateDisabled, criteriaDisabled, inFlight,
                 opened, connecting, authStatus>>
  /\ UNCHANGED <<coreVars, fetchVars, authVars, storageVars, listenerVars>>

\* reader.onload
ReaderLoad ==
  /\ \E n \in 1..Len(readers) :
       /\ emailsFromCsv' = parseEmailsFromCsvText(readers[n])
       /\ readers' = RemoveAt(readers, n)
  /\ generateDisabled' = updateGenerateButtonState(isAuthenticated, emailsFromCsv')
  /\ criteriaDisabled' = updateGenerateButtonState(isAuthenticated, emailsFromCsv')
  /\ csvInfo' = IF Len(emailsFromCsv') = 0 THEN "No valid emails found in the CSV file."
                ELSE "Loaded email(s) from CSV."
  /\ UNCHANGED <<isAuthenticated, inFlight, opened, connecting, authStatus>>
  /\ UNCHANGED <<coreVars, fetchVars, authVars, storageVars, listenerVars>>

\* reader.onerror
ReaderError ==
  /\ \E n \in 1..Len(readers) : readers' = RemoveAt(readers, n)
  /\ emailsFromCsv' = <<>>
  /\ generateDisabled' = updateGenerateButtonState(isAuthenticated, <<>>)
  /\ criteriaDisabled' = updateGenerateButtonState(isAuthenticated, <<>>)
  /\ csvInfo' = "Error reading CSV file."
  /\ UNCHANGED <<isAuthenticated, inFlight, opened, connecting, authStatus>>
  /\ UNCHANGED <<coreVars, fetchVars, authVars, storageVars, listenerVars>>

\* A click on a report button that is not disabled: sendReportRequest(type).
\* It returns early without addresses, without authentication or without a
\* valid date; else it disables the button used and sends the message.
ReportClick ==
  /\ Len(inFlight) < MaxPending
  /\ \E type \in {"GENERATE_REPORT", "GENERATE_CRITERIA_REPORT"}, dateOk \in BOOLEAN :
       /\ IF type = "GENERATE_REPORT" THEN ~generateDisabled ELSE ~criteriaDisabled
       /\ IF Len(emailsFromCsv) = 0 \/ ~isAuthenticated \/ ~dateOk
          THEN UNCHANGED <<generateDisabled, criteriaDisabled, inFlight>>
          ELSE /\ generateDisabled' = (type = "GENERATE_REPORT" \/ generateDisabled)
               /\ criteriaDisabled' = (type = "GENERATE_CRITERIA_REPORT" \/ criteriaDisabled)
               /\ inFlight' = Append(inFlight, type)
  /\ UNCHANGED <<isAuthenticated, emailsFromCsv, opened, connecting, readers,
                 authStatus, csvInfo>>
  /\ UNCHANGED <<coreVars, fetchVars, authVars, storageVars, listenerVars>>

\* The callback of sendMessage: btn.disabled = false, then the status text
ResponseCallback ==
  /\ \E n \in 1..Len(inFlight) :
       /\ generateDisabled' = (generateDisabled /\ inFlight[n] # "GENERATE_REPORT")
       /\ criteriaDisabled' = (criteriaDisabled /\ inFlight[n] # "GENERATE_CRITERIA_REPORT")
       /\ inFlight' = RemoveAt(inFlight, n)
  /\ UNCHANGED <<isAuthenticated, emailsFromCsv, opened, connecting, readers,
                 authStatus, csvInfo>>
  /\ UNCHANGED <<coreVars, fetchVars, authVars, storageVars, listenerVars>>

NextPopup ==
  \/ PopupOpen
  \/ ConnectClick
  \/ ConnectOk
  \/ ConnectFail
  \/ CsvCleared
  \/ CsvSelected
  \/ ReaderLoad
  \/ ReaderError
  \/ ReportClick
  \/ ResponseCallback

SpecPopup == InitPopup /\ [][NextPopup]_vars

\* ------------------------------------------------------------------------
\* getAccessToken, call after call, while the clock advances
\* ------------------------------------------------------------------------
InitAuth ==
  /\ HostCore("oneDay")
  /\ NoPopup
  /\ storedToken \in TokenSlots
  /\ clock = 0
  /\ authPc = "idle"
  /\ authResult = ""
  /\ launched = FALSE
  /\ tokenBefore = <<>>
  /\ nowAtCheck = 0
  /\ pendingToken = <<>>
  /\ NoStorage
  /\ NoListener

Tick ==
  /\ clock < MaxTicks * MS_PER_SEC
  /\ clock' = clock + MS_PER_SEC
  /\ UNCHANGED <<storedToken, authPc, authResult, launched, tokenBefore, nowAtCheck,
                 pendingToken>>
  /\ UNCHANGED <<coreVars, fetchVars, popupVars, storageVars, listenerVars>>

\* getAccessToken up to its decision: the stored token is returned, or
\* authenticateUser is called
GetAccessToken ==
  /\ authPc = "idle"
  /\ tokenBefore' = storedToken
  /\ nowAtCheck' = clock
  /\ launched' = FALSE
  /\ pendingToken' = <<>>
  /\ IF hasValidToken(storedToken, clock)
     THEN authPc' = "resolved" /\ authResult' = storedToken[1].access_token
     ELSE authPc' = "authenticate" /\ authResult' = ""
  /\ UNCHANGED <<storedToken, clock>>
  /\ UNCHANGED <<coreVars, fetchVars, popupVars, storageVars, listenerVars>>

\* authenticateUser after getConfig: chrome.identity.launchWebAuthFlow
LaunchWebAuthFlow ==
  /\ authPc = "authenticate"
  /\ launched' = TRUE
  /\ authPc' = "oauth"
  /\ UNCHANGED <<storedToken, clock, authResult, tokenBefore, nowAtCheck, pendingToken>>
  /\ UNCHANGED <<coreVars, fetchVars, popupVars, storageVars, listenerVars>>

\* The callback of launchWebAuthFlow up to saveToken
OAuthCallback ==
  /\ authPc = "oauth"
  /\ \E redirect \in Redirects :
       IF OAuthError(redirect) # ""
       THEN /\ authPc' = "rejected"
            /\ authResult' = OAuthError(redirect)
            /\ UNCHANGED pendingToken
       ELSE /\ authPc' = "save"
            /\ pendingToken' = << NewToken(redirect, clock) >>
            /\ UNCHANGED authResult
  /\ UNCHANGED <<storedToken, clock, launched, tokenBefore, nowAtCheck>>
  /\ UNCHANGED <<coreVars, fetchVars, popupVars, storageVars, listenerVars>>

\* saveToken: chrome.storage.local.set
SaveToken ==
  /\ authPc = "save"
  /\ \E form \in StoredForms(pendingToken[1]) : storedToken' = << form >>
  /\ authPc' = "saved"
  /\ UNCHANGED <<clock, authResult, launched, tokenBefore, nowAtCheck, pendingToken>>
  /\ UNCHANGED <<coreVars, fetchVars, popupVars, storageVars, listenerVars>>

\* resolve(accessToken)
ResolveToken ==
  /\ authPc = "saved"
  /\ authPc' = "resolved"
  /\ authResult' = pendingToken[1].access_token
  /\ UNCHANGED <<storedToken, clock, launched, tokenBefore, nowAtCheck, pendingToken>>
  /\ UNCHANGED <<coreVars, fetchVars, popupVars, storageVars, listenerVars>>

\* The caller has the result; the next call can start.
AuthReturn ==
  /\ authPc \in {"resolved", "rejected"}
  /\ authPc' = "idle"
  /\ UNCHANGED <<storedToken, clock, authResult, launched, tokenBefore, nowAtCheck,
                 pendingToken>>
  /\ UNCHANGED <<coreVars, fetchVars, popupVars, storageVars, listenerVars>>

NextAuth ==
  \/ Tick
  \/ GetAccessToken
  \/ LaunchWebAuthFlow
  \/ OAuthCallback
  \/ SaveToken
  \/ ResolveToken
  \/ AuthReturn

SpecAuth == InitAuth /\ [][NextAuth]_vars

\* ------------------------------------------------------------------------
\* storage.js: calls of getConfig, saveConfig and resetConfig in progress at
\* the same time; each storage access is one step
\* ------------------------------------------------------------------------
InitStorage ==
  /\ HostCore("oneDay")
  /\ NoPopup
  /\ NoAuth
  /\ storedConfig \in StoredConfigs
  /\ calls = <<>>
  /\ NoListener

CallSaveConfig ==
  /\ Len(calls) < MaxPending
  /\ \E partial \in Partials : calls' = Append(calls, StorageCall("save", partial))
  /\ UNCHANGED storedConfig
  /\ UNCHANGED <<coreVars, fetchVars, popupVars, authVars, listenerVars>>

CallGetConfig ==
  /\ Len(calls) < MaxPending
  /\ calls' = Append(calls, StorageCall("get", NothingStored))
  /\ UNCHANGED storedConfig
  /\ UNCHANGED <<coreVars, fetchVars, popupVars, authVars, listenerVars>>

CallResetConfig ==
  /\ Len(calls) < MaxPending
  /\ calls' = Append(calls, StorageCall("reset", NothingStored))
  /\ UNCHANGED storedConfig
  /\ UNCHANGED <<coreVars, fetchVars, popupVars, authVars, listenerVars>>

\* The callback of chrome.storage.local.get in getConfig: the caller of
\* getConfig has its value; saveConfig has `current`.
StorageGet ==
  /\ \E n \in 1..Len(calls) :
       /\ calls[n].at = "called"
       /\ calls[n].op \in {"get", "save"}
       /\ calls' = [calls EXCEPT ![n] =
            IF calls[n].op = "get"
            THEN [calls[n] EXCEPT !.at = "resolved", !.result = getConfig(storedConfig)]
            ELSE [calls[n] EXCEPT !.at = "read", !.current = getConfig(storedConfig)]]
  /\ UNCHANGED storedConfig
  /\ UNCHANGED <<coreVars, fetchVars, popupVars, authVars, listenerVars>>

\* saveConfig: chrome.storage.local.set of { ...current, ...partialConfig },
\* resolve(newConfig)
StorageSetSaved ==
  /\ \E n \in 1..Len(calls) :
       /\ calls[n].op = "save"
       /\ calls[n].at = "read"
       /\ storedConfig' = Merge(calls[n].current, calls[n].partial)
       /\ calls' = [calls EXCEPT ![n] =
            [calls[n] EXCEPT !.at = "resolved", !.result = storedConfig']]
  /\ UNCHANGED <<coreVars, fetchVars, popupVars, authVars, listenerVars>>

\* resetConfig: chrome.storage.local.set of { ...DEFAULT_CONFIG }, resolve
StorageSetDefaults ==
  /\ \E n \in 1..Len(calls) :
       /\ calls[n].op = "reset"
       /\ calls[n].at = "called"
       /\ storedConfig' = DEFAULT_CONFIG
       /\ calls' = [calls EXCEPT ![n] =
            [calls[n] EXCEPT !.at = "resolved", !.result = DEFAULT_CONFIG]]
  /\ UNCHANGED <<coreVars, fetchVars, popupVars, authVars, listenerVars>>

NextStorage ==
  \/ CallSaveConfig
  \/ CallGetConfig
  \/ CallResetConfig
  \/ StorageGet
  \/ StorageSetSaved
  \/ StorageSetDefaults

SpecStorage == InitStorage /\ [][NextStorage]_vars

\* ------------------------------------------------------------------------
\* The background listener on one message, in either build
\* ------------------------------------------------------------------------
InitListener ==
  /\ \E b \in {"oneDay", "twoDay"} : HostCore(b)
  /\ NoPopup
  /\ NoAuth
  /\ NoStorage
  /\ received \in [type : MessageTypes, payload : Payloads]
  /\ handlerPc = "listen"
  /\ effects = <<>>
  /\ sent = <<>>
  /\ channel = "none"
  /\ thrown = ""

\* The listener runs: a message without handler returns false; else the
\* handler is called, which runs up to its first await (the payload is
\* checked, then getAccessToken() and getConfig() are called), and the
\* listener returns true.
Receive ==
  /\ handlerPc = "listen"
  /\ IF HandlerFor(received.type) = "none"
     THEN /\ channel' = "closed"
          /\ handlerPc' = "ignored"
          /\ UNCHANGED <<effects, thrown>>
     ELSE /\ channel' = "open"
          /\ thrown' = ValidationError(build, received.payload)
          /\ IF thrown' # ""
             THEN /\ handlerPc' = "rejected"
                  /\ UNCHANGED effects
             ELSE /\ handlerPc' = "token"
                  /\ effects' = <<"getAccessToken", "getConfig">>
  /\ UNCHANGED sent
  /\ UNCHANGED received
  /\ UNCHANGED <<coreVars, fetchVars, popupVars, authVars, storageVars>>

\* Promise.all([getAccessToken(), getConfig()]) settles: the stored token, a
\* token of the OAuth flow, or the flow's rejection. With a token the handler
\* goes on into fetchAllEventsForPayload up to its first request.
TokenSettle ==
  /\ handlerPc = "token"
  /\ \E flow \in {<<>>} \cup {<< redirect >> : redirect \in Redirects} :
       LET launch == IF Len(flow) = 0 THEN <<>> ELSE <<"launchWebAuthFlow">>
           error == IF Len(flow) > 0 /\ OAuthError(flow[1]) # ""
                    THEN OAuthError(flow[1])
                    ELSE FetchError(build, received.payload)
       IN  /\ thrown' = error
           /\ IF error # ""
              THEN handlerPc' = "rejected" /\ effects' = effects \o launch
              ELSE handlerPc' = "fetching" /\ effects' = effects \o launch \o <<"fetch">>
  /\ UNCHANGED <<received, sent, channel>>
  /\ UNCHANGED <<coreVars, fetchVars, popupVars, authVars, storageVars>>

\* The fetch resolves (failures of single calendars are collected, not thrown):
\* analyzeCalendar runs and the download is requested.
FetchSettle ==
  /\ handlerPc = "fetching"
  /\ handlerPc' = "downloading"
  /\ effects' = effects \o <<"analyzeCalendar", "download">>
  /\ UNCHANGED <<received, sent, channel, thrown>>
  /\ UNCHANGED <<coreVars, fetchVars, popupVars, authVars, storageVars>>

\* The callback of chrome.downloads.download: with chrome.runtime.lastError
\* the promise rejects, else it resolves with the download id.
DownloadSettle ==
  /\ handlerPc = "downloading"
  /\ \E ok \in BOOLEAN :
       IF ok
       THEN handlerPc' = "fulfilled" /\ effects' = Append(effects, "downloaded") /\ UNCHANGED thrown
       ELSE handlerPc' = "rejected" /\ UNCHANGED effects /\ thrown' = "lastError"
  /\ UNCHANGED <<received, sent, channel>>
  /\ UNCHANGED <<coreVars, fetchVars, popupVars, authVars, storageVars>>

\* .then(() => sendResponse({ ok: true })) / .catch(err => sendResponse({ ok:
\* false, error: err.message }))
Respond ==
  /\ handlerPc \in {"fulfilled", "rejected"}
  /\ sent' = Append(sent, Response(thrown))
  /\ handlerPc' = "answered"
  /\ UNCHANGED <<received, effects, channel, thrown>>
  /\ UNCHANGED <<coreVars, fetchVars, popupVars, authVars, storageVars>>

NextListener ==
  \/ Receive
  \/ TokenSettle
  \/ FetchSettle
  \/ DownloadSettle
  \/ Respond

SpecListener == InitListener /\ [][NextListener]_vars

\* The steps the handler waits for settle, and the promise's reactions run.
SpecListenerFair ==
  /\ SpecListener
  /\ WF_vars(Receive)
  /\ WF_vars(TokenSettle)
  /\ WF_vars(FetchSettle)
  /\ WF_vars(DownloadSettle)
  /\ WF_vars(Respond)

\* ------------------------------------------------------------------------
\* Vocabulary of the properties
\* ------------------------------------------------------------------------
Finished == pc \in {"done", "reported"}

\* Minute of the day of an "HH:MM" value, and of a block's ends
HHMM(t) == t[1] * 60 + t[2]
FromMin(b) == HHMM(b.from)
ToMin(b) == HHMM(b.to)

\* Minutes since the start of day 0 of an ISO datetime
AbsMin(iso) == DayIndex(iso.date) * MIN_PER_DAY + iso.min
WindowStartAbs(date) == DayIndex(date) * MIN_PER_DAY + HHMM(config.workdayStart)
WindowEndAbs(date) == DayIndex(date) * MIN_PER_DAY + HHMM(config.workdayEnd)

IsDate(d) == d \in Days

\* The input events of a (user, date), by position in the input list
EventsOf(o, d) ==
  {j \in 1..Len(events) : events[j].calendarId = o /\ events[j].start.date = d}

Qualifies(j, d) ==
  /\ ~events[j].allDay
  /\ AbsMin(events[j].end) > WindowStartAbs(d)
  /\ AbsMin(events[j].start) < WindowEndAbs(d)

Qualifying(o, d) == {j \in EventsOf(o, d) : Qualifies(j, d)}

BusyIdx(blocks) == {j \in 1..Len(blocks) : blocks[j].type = "busy"}
FreeIdx(blocks) == {j \in 1..Len(blocks) : blocks[j].type = "free"}

Max2(a, b) == IF a >= b THEN a ELSE b
Min2(a, b) == IF a <= b THEN a ELSE b

\* Every block sequence the analyzer holds: finished timelines and the one in progress
BlockSeqs == {results[n].blocks : n \in 1..Len(results)} \cup {allBlocks}

\* ------------------------------------------------------------------------
\* C1: the blocks of every (user, date) timeline, in output order, exactly
\* tile [workStart, workEnd): the first starts at workStart, each starts where
\* the previous one ended, the last ends at workEnd, and no two overlap.
\* ------------------------------------------------------------------------
Tiles(blocks, ws, we) ==
  /\ Len(blocks) >= 1
  /\ FromMin(blocks[1]) = ws
  /\ ToMin(blocks[Len(blocks)]) = we
  /\ \A j \in 1..(Len(blocks) - 1) : FromMin(blocks[j + 1]) = ToMin(blocks[j])
  /\ \A j \in 1..Len(blocks) : \A m \in (j + 1)..Len(blocks) :
       ToMin(blocks[j]) <= FromMin(blocks[m])

C1_BlocksTileWorkday ==
  \A n \in 1..Len(results) :
    IsDate(results[n].date) =>
      Tiles(results[n].blocks, HHMM(config.workdayStart), HHMM(config.workdayEnd))

\* ------------------------------------------------------------------------
\* C2: while the busy blocks of one day are walked the cursor never moves
\* backward, and no Free block is emitted inside the interval of a Busy block
\* emitted earlier in the same timeline.
\* ------------------------------------------------------------------------
NoFreeInsideBusy(blocks) ==
  \A f \in FreeIdx(blocks) : \A b \in BusyIdx(blocks) :
    b < f => ~(FromMin(blocks[f]) < ToMin(blocks[b]) /\ FromMin(blocks[b]) < ToMin(blocks[f]))

C2_CursorMonotonic ==
  [][ /\ (pc = "walk" /\ pc' = "walk" /\ i' = i + 1) => cursor' >= cursor
      /\ \A n \in 1..Len(results') : NoFreeInsideBusy(results'[n].blocks) ]_vars

\* ------------------------------------------------------------------------
\* C3: no block of duration <= 0 is ever emitted, Busy or Free.
\* ------------------------------------------------------------------------
C3_NoEmptyBlock ==
  \A bs \in BlockSeqs : \A j \in 1..Len(bs) : bs[j].duration > 0

\* ------------------------------------------------------------------------
\* C4: a Busy block is long if and only if its clipped duration in minutes is
\* strictly greater than maxStandardBlockMinutes.
\* ------------------------------------------------------------------------
ClippedMinutes(j, d) ==
  Min2(AbsMin(events[j].end), WindowEndAbs(d)) - Max2(AbsMin(events[j].start), WindowStartAbs(d))

C4_LongIffOverThreshold ==
  \A n \in 1..Len(results) : \A j \in BusyIdx(results[n].blocks) :
    LET b == results[n].blocks[j]
    IN  /\ b.isLong <=> (ClippedMinutes(b.title, results[n].date) > config.maxStandardBlockMinutes)
        /\ b.isLong <=> (b.duration > config.maxStandardBlockMinutes)

C4_Witness ==
  \E n \in 1..Len(results) :
    /\ \E j \in BusyIdx(results[n].blocks) :
         results[n].blocks[j].duration = config.maxStandardBlockMinutes
           /\ ~results[n].blocks[j].isLong
    /\ \E j \in BusyIdx(results[n].blocks) : results[n].blocks[j].isLong

\* ------------------------------------------------------------------------
\* C5: a timeline holds exactly one Busy block for each event of its
\* (user, date) that is not all-day and intersects the window, none for any
\* other event, each spanning [max(start, workStart), min(end, workEnd));
\* overlapping events are not merged.
\* ------------------------------------------------------------------------
C5_OneBusyPerSurvivingEvent ==
  \A n \in 1..Len(results) :
    LET e == results[n]
        Q == Qualifying(e.email, e.date)
    IN  /\ Cardinality(BusyIdx(e.blocks)) = Cardinality(Q)
        /\ {e.blocks[j].title : j \in BusyIdx(e.blocks)} = Q
        /\ \A j \in BusyIdx(e.blocks) :
             LET b == e.blocks[j]
                 ev == events[b.title]
             IN  /\ FromMin(b) + DayIndex(e.date) * MIN_PER_DAY
                      = Max2(AbsMin(ev.start), WindowStartAbs(e.date))
                 /\ ToMin(b) + DayIndex(e.date) * MIN_PER_DAY
                      = Min2(AbsMin(ev.end), WindowEndAbs(e.date))
                 /\ b.duration = ToMin(b) - FromMin(b)

\* Two overlapping events, one of them clipped, beside a discarded one of the same day.
C5_Witness ==
  \E n \in 1..Len(results) :
    LET e == results[n]
    IN  /\ \E j, m \in BusyIdx(e.blocks) :
             /\ j < m
             /\ FromMin(e.blocks[m]) < ToMin(e.blocks[j])
             /\ AbsMin(events[e.blocks[j].title].start) < WindowStartAbs(e.date)
        /\ Cardinality(EventsOf(e.email, e.date)) >= 2

\* ------------------------------------------------------------------------
\* C6: analyzeCalendar returns exactly one entry {email, date, blocks} for
\* each (calendarId, start date) pair of the input, and no other entry.
\* ------------------------------------------------------------------------
C6_OneTimelinePerPair ==
  Finished =>
    /\ \A o \in Owners : \A d \in Days :
         EventsOf(o, d) # {} =>
           Cardinality({n \in 1..Len(results) :
                          results[n].email = o /\ results[n].date = d}) = 1
    /\ \A n \in 1..Len(results) : EventsOf(results[n].email, results[n].date) # {}

\* ------------------------------------------------------------------------
\* C7: when no event of a (user, date) qualifies (no event at all, only
\* all-day events, only events outside the window) its timeline is exactly
\* one Free block spanning the workday.
\* ------------------------------------------------------------------------
WholeDayFree ==
  [type |-> "free", from |-> config.workdayStart, to |-> config.workdayEnd,
   duration |-> HHMM(config.workdayEnd) - HHMM(config.workdayStart)]

C7_EmptyDayIsOneFreeBlock ==
  Finished =>
    \A o \in Owners : \A d \in Days :
      Qualifying(o, d) = {} =>
        \E n \in 1..Len(results) :
          /\ results[n].email = o
          /\ results[n].date = d
          /\ results[n].blocks = <<WholeDayFree>>

\* ------------------------------------------------------------------------
\* C8: events are partitioned by (calendarId, start date); in each timeline
\* the Busy blocks follow the start instants of their events, and events
\* with equal starts keep their input order.
\* ------------------------------------------------------------------------
GroupOf(j) == {g \in 1..Len(grouped) : \E m \in 1..Len(grouped[g].evs) : grouped[g].evs[m].summary = j}

C8_PartitionedAndSorted ==
  /\ (pc # "analyze" /\ Len(events) > 0) =>
       /\ \A j \in 1..Len(events) : Cardinality(GroupOf(j)) = 1
       /\ \A j, m \in 1..Len(events) :
            (GroupOf(j) = GroupOf(m)) <=>
              (events[j].calendarId = events[m].calendarId
                 /\ events[j].start.date = events[m].start.date)
       /\ \A g \in 1..Len(grouped) :
            Len(grouped[g].evs) = Cardinality({j \in 1..Len(events) : g \in GroupOf(j)})
  /\ \A n \in 1..Len(results) :
       \A j, m \in BusyIdx(results[n].blocks) :
         j < m =>
           LET a == results[n].blocks[j].title
               b == results[n].blocks[m].title
           IN  \/ AbsMin(events[a].start) < AbsMin(events[b].start)
               \/ AbsMin(events[a].start) = AbsMin(events[b].start) /\ a < b

\* A timeline whose Busy blocks are not in input order.
C8_Witness ==
  \E n \in 1..Len(results) :
    \E j, m \in BusyIdx(results[n].blocks) :
      j < m /\ results[n].blocks[j].title > results[n].blocks[m].title

\* ------------------------------------------------------------------------
\* C10: one-day mode: passed holds exactly when no Busy block of the user on
\* the target date is long and busyMinutes / 540 * 100 >= 85, busyMinutes
\* being the Busy minutes of the user's timeline of the target date (0 when
\* there is none); other dates have no influence.
\* ------------------------------------------------------------------------
TimelinesOn(email, d) ==
  {n \in 1..Len(results) : results[n].email = email /\ results[n].date = d}

RECURSIVE BusyMinutesIn(_, _)
BusyMinutesIn(blocks, S) ==
  IF S = {} THEN 0
  ELSE LET j == CHOOSE x \in S : TRUE
       IN  blocks[j].duration + BusyMinutesIn(blocks, S \ {j})

RECURSIVE BusyMinutesOver(_)
BusyMinutesOver(T) ==
  IF T = {} THEN 0
  ELSE LET n == CHOOSE x \in T : TRUE
       IN  BusyMinutesIn(results[n].blocks, BusyIdx(results[n].blocks)) + BusyMinutesOver(T \ {n})

TwoDayReported ==
  pc = "reported" /\ Len(selectedDates) = 2 /\ selectedDates[1] # selectedDates[2]

Earlier ==
  IF DayIndex(selectedDates[1]) < DayIndex(selectedDates[2])
  THEN selectedDates[1] ELSE selectedDates[2]

Later ==
  IF DayIndex(selectedDates[1]) < DayIndex(selectedDates[2])
  THEN selectedDates[2] ELSE selectedDates[1]

IsTwoDayRow(row) == "day1" \in DOMAIN row

Has(seq, x) == \E n \in 1..Len(seq) : seq[n] = x

\* Some Busy block of the user's timeline(s) of date d exceeds the configured threshold
LongOn(email, d) ==
  \E n \in TimelinesOn(email, d) :
    \E j \in BusyIdx(results[n].blocks) :
      results[n].blocks[j].duration > config.maxStandardBlockMinutes

C1Failed(row) == Has(row.criteria_failed, Phrase("Bloques mayores a 60 minutos", 0))
C2Failed(row) == Has(row.criteria_failed, Phrase("Disponibilidad dia 1 mayor al 30%", 0))
C3Failed(row) == Has(row.criteria_failed, Phrase("Disponibilidad dia 2 mayor al 70%", 0))

\* ------------------------------------------------------------------------
\* C11: two-day mode: for every user evaluated, passed holds exactly when
\* C1, C2 and C3 hold, C1 being that no Busy block of the user on day1 or on
\* day2 exceeds the threshold, C2 (540 - busy(day1)) / 540 * 100 <= 30 and
\* C3 (540 - busy(day2)) / 540 * 100 <= 70, with day1 the earlier and day2
\* the later target date and busy of a date without timeline 0.
\* ------------------------------------------------------------------------
C11_PassedIffThreeRules ==
  TwoDayReported =>
    \A r \in 1..Len(rows) :
      LET e == rows[r].email
          busy1 == BusyMinutesOver(TimelinesOn(e, Earlier))
          busy2 == BusyMinutesOver(TimelinesOn(e, Later))
          C1 == ~LongOn(e, Earlier) /\ ~LongOn(e, Later)
          C2 == (540 - busy1) * 100 <= 30 * 540
          C3 == (540 - busy2) * 100 <= 70 * 540
      IN  /\ rows[r].day1 = Earlier
          /\ rows[r].day2 = Later
          /\ rows[r].passed <=> (C1 /\ C2 /\ C3)

\* ------------------------------------------------------------------------
\* C12: two-day mode: the dates passed as [A, B] or as [B, A] give day1 = A,
\* day2 = B (A < B) and the same verdict rows.
\* ------------------------------------------------------------------------
C12_DayOrderInvariant ==
  TwoDayReported =>
    /\ rows = buildCriteriaCsvTwoDay(results, <<selectedDates[2], selectedDates[1]>>, config)
    /\ \A r \in 1..Len(rows) : rows[r].day1 = Earlier /\ rows[r].day2 = Later

\* The dates were passed later-first and a user fails exactly one of the day
\* rules, so that exchanging the days would change the verdict.
C12_Witness ==
  /\ TwoDayReported
  /\ DayIndex(selectedDates[1]) > DayIndex(selectedDates[2])
  /\ \E r \in 1..Len(rows) :
       /\ rows[r].day1 = selectedDates[2]
       /\ C2Failed(rows[r]) /\ ~C3Failed(rows[r])

\* ------------------------------------------------------------------------
\* C13: two-day mode: rule C1 fails exactly when some Busy block of the user
\* on day1 or on day2 exceeds the threshold; a long block on another date of
\* the same user does not make it fail.
\* ------------------------------------------------------------------------
C13_LongBlocksOnTargetDatesOnly ==
  TwoDayReported =>
    \A r \in 1..Len(rows) :
      C1Failed(rows[r]) <=> (LongOn(rows[r].email, Earlier) \/ LongOn(rows[r].email, Later))

\* ------------------------------------------------------------------------
\* Vocabulary of the message and reason properties
\* ------------------------------------------------------------------------
\* The phrases of the rules of a row's rule set, in rule order
RulePhrases(row) ==
  IF IsTwoDayRow(row)
  THEN << [ok |-> Phrase("Bloques maximos de 60 minutos", 0),
           ko |-> Phrase("Bloques mayores a 60 minutos", 0),
           fragment |-> BlockPart],
          [ok |-> Phrase("Disponibilidad dia 1 menor o igual al 30%", 0),
           ko |-> Phrase("Disponibilidad dia 1 mayor al 30%", 0),
           fragment |-> Day1Part],
          [ok |-> Phrase("Disponibilidad dia 2 menor o igual al 70%", 0),
           ko |-> Phrase("Disponibilidad dia 2 mayor al 70%", 0),
           fragment |-> Day2Part] >>
  ELSE << [ok |-> Phrase("Bloques <=", MaxBlockOf(config)),
           ko |-> Phrase("Bloques >", MaxBlockOf(config)),
           fragment |-> Phrase("veo que tienes bloques mayores a", MaxBlockOf(config))],
          [ok |-> Phrase("Busy >= 85%", 0),
           ko |-> Phrase("Busy < 85%", 0),
           fragment |-> Phrase("veo que tu calendario tiene unos espacios vacios", 0)] >>

CongratulationOf(row) ==
  IF IsTwoDayRow(row) THEN Congratulation
  ELSE <<Phrase("hola, muchas gracias por mantener tu calendario actualizado", 0), Closing>>

\* The rules a row reports as failed, as a function rule number -> BOOLEAN
FailedRules(row) ==
  [n \in 1..Len(RulePhrases(row)) |-> Has(row.criteria_failed, RulePhrases(row)[n].ko)]

\* greeting, part, connector, part, ..., closing
WellFramed(msg) ==
  /\ Len(msg) >= 3 /\ Len(msg) % 2 = 1
  /\ msg[1] = Greeting
  /\ msg[Len(msg)] = Closing
  /\ \A n \in 1..((Len(msg) - 3) \div 2) : msg[2 * n + 1] = Connector

MessageParts(msg) == [n \in 1..((Len(msg) - 1) \div 2) |-> msg[2 * n]]

\* One fragment for each failing rule, in rule order
RECURSIVE FragmentPerRule(_, _, _)
FragmentPerRule(phrases, failed, n) ==
  IF n > Len(phrases) THEN <<>>
  ELSE (IF failed[n] THEN <<phrases[n].fragment>> ELSE <<>>)
         \o FragmentPerRule(phrases, failed, n + 1)

\* The same, but one combined fragment when both day rules of the two-day
\* rule set fail
FragmentsCombined(row) ==
  LET failed == FailedRules(row)
  IN  IF IsTwoDayRow(row) /\ failed[2] /\ failed[3]
      THEN (IF failed[1] THEN <<BlockPart>> ELSE <<>>) \o <<BothDaysPart>>
      ELSE FragmentPerRule(RulePhrases(row), failed, 1)

\* ------------------------------------------------------------------------
\* C14 (as stated): in both modes the message is the congratulatory one
\* exactly when no rule fails; otherwise it is the greeting, exactly one
\* remediation fragment for each failing rule and none for a passing one,
\* joined by the connector, and the closing.
\* ------------------------------------------------------------------------
C14_OneFragmentPerFailingRule ==
  pc = "reported" =>
    \A r \in 1..Len(rows) :
      LET row == rows[r]
          msg == row.slack_message
      IN  /\ (msg = CongratulationOf(row)) <=> (row.criteria_failed = <<>>)
          /\ row.criteria_failed # <<>> =>
               /\ WellFramed(msg)
               /\ MessageParts(msg) = FragmentPerRule(RulePhrases(row), FailedRules(row), 1)

\* ------------------------------------------------------------------------
\* C14 (amended): as above, except that in two-day mode the two day rules
\* failing together are answered by one combined fragment that names both
\* days, in place of the day-1 and the day-2 fragment.
\* ------------------------------------------------------------------------
C14_FragmentsOfFailingRules ==
  pc = "reported" =>
    \A r \in 1..Len(rows) :
      LET row == rows[r]
          msg == row.slack_message
      IN  /\ (msg = CongratulationOf(row)) <=> (row.criteria_failed = <<>>)
          /\ row.criteria_failed # <<>> =>
               /\ WellFramed(msg)
               /\ MessageParts(msg) = FragmentsCombined(row)

\* A two-day verdict failing all three rules: block fragment, connector,
\* combined day fragment.
C14_Witness ==
  /\ TwoDayReported
  /\ \E r \in 1..Len(rows) :
       /\ rows[r].slack_message = <<Greeting, BlockPart, Connector, BothDaysPart, Closing>>
       /\ Len(rows[r].criteria_failed) = 3

\* ------------------------------------------------------------------------
\* C15: in every verdict each rule of the rule set stands in exactly one of
\* criteria_passed and criteria_failed, both in rule order C1, C2(, C3);
\* criteria_failed holds exactly the failing rules and passed holds exactly
\* when it is empty; when only the day-1 rule fails, criteria_failed holds
\* that rule alone and the message holds the day-1 fragment alone.
\* The day rules are read from the timelines; for C1 of the two-day rule set
\* a long block on a target date has to be reported as a failure.
\* ------------------------------------------------------------------------
RECURSIVE Listed(_, _, _, _)
Listed(phrases, outcome, which, n) ==
  IF n > Len(phrases) THEN <<>>
  ELSE (IF outcome[n] = (which = "ok") THEN <<phrases[n][which]>> ELSE <<>>)
         \o Listed(phrases, outcome, which, n + 1)

\* The outcomes of the rules that the timelines admit for a row
Outcomes(row) ==
  LET e == row.email
  IN  IF ~IsTwoDayRow(row)
      THEN { << ~LongOn(e, selectedDates[1]),
                BusyMinutesOver(TimelinesOn(e, selectedDates[1])) * 100 >= 85 * 540 >> }
      ELSE IF TwoDayReported
      THEN { o \in [1..3 -> BOOLEAN] :
               /\ (LongOn(e, Earlier) \/ LongOn(e, Later)) => ~o[1]
               /\ o[2] <=> ((540 - BusyMinutesOver(TimelinesOn(e, Earlier))) * 100 <= 30 * 540)
               /\ o[3] <=> ((540 - BusyMinutesOver(TimelinesOn(e, Later))) * 100 <= 70 * 540) }
      ELSE [1..3 -> BOOLEAN]

C16_GenericMessageUnreachable ==
  /\ \A c1 \in BOOLEAN, c2 \in BOOLEAN, c3 \in BOOLEAN :
       buildSlackMessage(c1, c2, c3) # GenericMessage
  /\ pc = "reported" =>
       \A r \in 1..Len(rows) :
         IsTwoDayRow(rows[r]) => rows[r].slack_message # GenericMessage

\* A two-day verdict in which only the day-2 rule fails: the last branch
\* that collects a fragment.
C16_Witness ==
  /\ TwoDayReported
  /\ \E r \in 1..Len(rows) :
       /\ rows[r].criteria_failed = <<Phrase("Disponibilidad dia 2 mayor al 70%", 0)>>
       /\ rows[r].slack_message = <<Greeting, Day2Part, Closing>>

\* ------------------------------------------------------------------------
\* C20: under a configuration with dayStartTime >= dayEndTime the Block
\* Builder emits no block at all, in particular none of negative duration or
\* with from after to, for every date and event list.
\* ------------------------------------------------------------------------
C20_InvalidWindowEmitsNoBlock ==
  HHMM(config.workdayStart) >= HHMM(config.workdayEnd) =>
    \A blocks \in BlockSeqs : blocks = <<>>

\* ------------------------------------------------------------------------
\* Vocabulary of the fetch and report properties
\* ------------------------------------------------------------------------
\* Calendar number n was read on every fetched date / failed on some date
FetchedOk(n) == \A d \in 1..Len(responses) : responses[d][n].outcome = "ok"
FailedSomewhere(n) == \E d \in 1..Len(responses) : responses[d][n].outcome = "error"

IsStandardReport == csv # <<>> /\ "type" \in DOMAIN csv[1]
IsCriteriaReport == csv # <<>> /\ "passed" \in DOMAIN csv[1]

\* Positions of the rows of the report below the header
Body == 2..Len(csv)

IsErrorRow(row) == IF "type" \in DOMAIN row THEN row.type = "error" ELSE row.passed = "error"

ErrorRowsOf(c) == {m \in Body : IsErrorRow(csv[m]) /\ csv[m].email = c}
VerdictRowsOf(c) == {m \in Body : ~IsErrorRow(csv[m]) /\ csv[m].email = c}

RECURSIVE BlockCount(_, _)
BlockCount(type, n) ==
  IF n > Len(results) THEN 0
  ELSE Cardinality({j \in 1..Len(results[n].blocks) : results[n].blocks[j].type = type})
         + BlockCount(type, n + 1)

\* ------------------------------------------------------------------------
\* C17: the criteria report holds exactly one verdict row, and no error row,
\* for every requested user whose calendar was read on every fetched date,
\* a user without any event included.
\* ------------------------------------------------------------------------
C17_OneVerdictPerFetchedUser ==
  (pc = "reported" /\ IsCriteriaReport) =>
    \A n \in 1..Len(calendarIds) :
      FetchedOk(n) =>
        /\ Cardinality(VerdictRowsOf(calendarIds[n])) = 1
        /\ ErrorRowsOf(calendarIds[n]) = {}

\* ------------------------------------------------------------------------
\* C18: in a generated report, standard or criteria, every calendar that
\* could not be read has exactly one error row however many dates were
\* fetched (and a calendar that was read has none), and the standard report
\* is the header, one row per Busy/Free block of the analysis and the error
\* rows, nothing else.
\* ------------------------------------------------------------------------
C18_OneErrorRowPerUnreadCalendar ==
  pc = "reported" =>
    /\ \A n \in 1..Len(calendarIds) :
         Cardinality(ErrorRowsOf(calendarIds[n])) = IF FailedSomewhere(n) THEN 1 ELSE 0
    /\ IsStandardReport =>
         /\ csv[1] = StandardHeader
         /\ Cardinality({m \in Body : csv[m].type = "busy"}) = BlockCount("busy", 1)
         /\ Cardinality({m \in Body : csv[m].type = "free"}) = BlockCount("free", 1)
         /\ \A m \in Body : csv[m].type \in {"busy", "free", "error"}
         /\ \A m \in Body : csv[m].type = "error" =>
              \E n \in 1..Len(calendarIds) : csv[m].email = calendarIds[n]

\* ------------------------------------------------------------------------
\* C19: fetchEventsForUsers resolves, whichever calendars fail and in
\* whichever order the requests complete, with the events of the calendars
\* that were read and with exactly one failure record for each calendar that
\* was not (none for one that was), its reason not_found_or_no_access for
\* status 404, forbidden for 403 and other_error otherwise.
\* ------------------------------------------------------------------------
RECURSIVE EventsRead(_, _)
EventsRead(resp, n) ==
  IF n = 0 THEN 0
  ELSE (IF resp[n].outcome = "ok" THEN Len(resp[n].events) ELSE 0) + EventsRead(resp, n - 1)

ReasonFor(status) ==
  CASE status = 404 -> "not_found_or_no_access"
    [] status = 403 -> "forbidden"
    [] OTHER -> "other_error"

C19_FetchResolvesWithFailuresAsData ==
  /\ (pc = "await" /\ AllSettled(responses[dateIdx])) => ENABLED ResolveFetch
  /\ pc = "resolved" =>
       LET resp == responses[dateIdx]
       IN  /\ Len(fetched.events) = EventsRead(resp, Len(resp))
           /\ \A n \in 1..Len(resp) :
                resp[n].outcome = "ok" =>
                  \A j \in 1..Len(resp[n].events) : Has(fetched.events, resp[n].events[j])
           /\ \A n \in 1..Len(resp) :
                LET recs == {m \in 1..Len(fetched.failures) :
                               fetched.failures[m].calendarId = calendarIds[n]}
                IN  IF resp[n].outcome = "ok" THEN recs = {}
                    ELSE /\ Cardinality(recs) = 1
                         /\ \A m \in recs :
                              /\ fetched.failures[m].status = resp[n].status
                              /\ fetched.failures[m].reason = ReasonFor(resp[n].status)
           /\ \A m \in 1..Len(fetched.failures) :
                \E n \in 1..Len(resp) : fetched.failures[m].calendarId = calendarIds[n]

\* The first calendar was read and holds an event; the other two failed, the
\* third before the second, with a 404 and a 403.
C19_Witness ==
  /\ pc = "resolved"
  /\ Len(calendarIds) = 3
  /\ Len(fetched.events) = 1
  /\ Len(fetched.failures) = 2
  /\ fetched.failures[1].calendarId = calendarIds[3]
  /\ fetched.failures[1].reason = "not_found_or_no_access"
  /\ fetched.failures[2].calendarId = calendarIds[2]
  /\ fetched.failures[2].reason = "forbidden"

\* ------------------------------------------------------------------------
\* C21: the two-day evaluation given fewer than two distinct target dates
\* (none, one, or the same date twice) produces no pass/fail verdict row.
\* ------------------------------------------------------------------------
C21_NoVerdictWithoutTwoDates ==
  pc = "reported" =>
    \A r \in 1..Len(rows) :
      IsTwoDayRow(rows[r]) =>
        Len(selectedDates) = 2 /\ selectedDates[1] # selectedDates[2]

\* ------------------------------------------------------------------------
\* C28: one-day mode, valid workday window: the busy_percent of every verdict
\* lies between 0 and 100, that is, the busy minutes of the target date never
\* exceed the 540 minutes they are divided by.
\* ------------------------------------------------------------------------
C28_BusyPercentWithinHundred ==
  pc = "reported" =>
    \A r \in 1..Len(rows) :
      ~IsTwoDayRow(rows[r]) =>
        /\ rows[r].busy_minutes >= 0 /\ rows[r].busy_minutes <= 540
        /\ rows[r].busy_percent >= 0 /\ rows[r].busy_percent <= 100 * 100

\* ------------------------------------------------------------------------
\* C29: building the group key from (calendarId, date) and parsing it back is
\* the identity: every timeline carries the calendarId and the start date of
\* every event grouped into it, also for a calendarId that contains "__".
\* ------------------------------------------------------------------------
C29_GroupKeyRoundTrip ==
  \A n \in 1..Len(results) :
    \A m \in 1..Len(grouped[n].evs) :
      /\ results[n].email = grouped[n].evs[m].calendarId
      /\ results[n].date = grouped[n].evs[m].start.date

\* ------------------------------------------------------------------------
\* C30: within one report generation each calendar event of a user gives at
\* most one Busy block, so that its minutes are counted at most once, also
\* when the two-day build fetches each selected date separately and an event
\* spanning both days is returned by both fetches.
\* ------------------------------------------------------------------------
SameEvent(a, b) ==
  /\ events[a].calendarId = events[b].calendarId
  /\ events[a].start = events[b].start
  /\ events[a].end = events[b].end

C30_EachEventOneBusyBlock ==
  \A n \in 1..Len(results) :
    \A j, m \in BusyIdx(results[n].blocks) :
      j # m => ~SameEvent(results[n].blocks[j].title, results[n].blocks[m].title)

\* ------------------------------------------------------------------------
\* The popup
\* ------------------------------------------------------------------------
\* C22: at most one report request is in flight at any time: between the
\* sending of a report message and the run of its response callback no second
\* message is sent.
C22_AtMostOneInFlight == Len(inFlight) <= 1

\* updateGenerateButtonState's canGenerate on the popup's present state
CanGenerate == isAuthenticated /\ Len(emailsFromCsv) > 0

\* C23: once the popup has opened, whenever no report request is in flight
\* (and no file is still being read), each report button is enabled exactly
\* when the user is authenticated and the loaded email list is not empty.
C23_ButtonsFollowState ==
  (opened /\ Len(inFlight) = 0 /\ Len(readers) = 0) =>
    /\ generateDisabled = ~CanGenerate
    /\ criteriaDisabled = ~CanGenerate

\* ------------------------------------------------------------------------
\* The access token
\* ------------------------------------------------------------------------
\* A token was stored when getAccessToken read the slot, and the time of the
\* check was strictly before its expires_at.
StoredFresh ==
  /\ Len(tokenBefore) > 0
  /\ tokenBefore[1].expires_at # NaN
  /\ nowAtCheck < tokenBefore[1].expires_at

\* C24: getAccessToken returns the stored token without launching the OAuth
\* flow exactly when a token is stored and the time is strictly before its
\* expires_at; otherwise the flow is launched; when the call resolves after
\* the flow, the new token is the stored one; when it rejects, the stored
\* token is the one it was.
C24_StoredTokenIffFresh ==
  authPc # "idle" =>
    /\ StoredFresh =>
         /\ authPc = "resolved"
         /\ ~launched
         /\ authResult = tokenBefore[1].access_token
    /\ ~StoredFresh => (authPc = "authenticate" \/ launched)
    /\ (authPc = "resolved" /\ launched) =>
         /\ Len(storedToken) > 0
         /\ storedToken[1].access_token = authResult
    /\ authPc = "rejected" => storedToken = tokenBefore

\* ------------------------------------------------------------------------
\* The stored configuration
\* ------------------------------------------------------------------------
\* Every call made has resolved.
AllResolved == \A n \in 1..Len(calls) : calls[n].at = "resolved"

\* The calls made are saveConfig calls whose arguments share no key.
DisjointSaves ==
  /\ \A n \in 1..Len(calls) : calls[n].op = "save"
  /\ \A n, m \in 1..Len(calls) :
       n # m => DOMAIN calls[n].partial \cap DOMAIN calls[m].partial = {}

\* C25: when saveConfig calls with disjoint keys have all resolved, every key
\* of every argument has its new value in the configuration (no update is
\* lost), whether or not the calls were in progress at the same time; and
\* every value getConfig resolved with has all the keys of DEFAULT_CONFIG.
C25_NoLostUpdate ==
  /\ (AllResolved /\ DisjointSaves) =>
       \A n \in 1..Len(calls) :
         \A key \in DOMAIN calls[n].partial :
           getConfig(storedConfig)[key] = calls[n].partial[key]
  /\ \A n \in 1..Len(calls) :
       (calls[n].op = "get" /\ calls[n].at = "resolved") =>
         DOMAIN calls[n].result = DOMAIN DEFAULT_CONFIG

\* resetConfig leaves exactly DEFAULT_CONFIG for getConfig.
ResetRestoresDefaults ==
  [][StorageSetDefaults => getConfig(storedConfig') = DEFAULT_CONFIG]_vars

\* ------------------------------------------------------------------------
\* The background listener
\* ------------------------------------------------------------------------
ReportTypes == {"GENERATE_REPORT", "GENERATE_CRITERIA_REPORT"}

\* The message asks for a report.
IsReport == received.type \in ReportTypes

\* The payload has no emails: it is missing, or emails is not an array, or
\* the list is empty.
NoEmails ==
  \/ ~received.payload.present
  \/ ~received.payload.isArray
  \/ Len(received.payload.emails) = 0

\* C26: a report message whose payload has no emails is rejected before any
\* side effect (no token or configuration is requested, no OAuth flow, no
\* fetch, no download), and the sender receives {ok: false} with the error
\* 'No emails provided.'.
C26_NoEmailsRejectedFirst ==
  (IsReport /\ NoEmails /\ handlerPc # "listen") =>
    /\ effects = <<>>
    /\ handlerPc \in {"rejected", "answered"}
    /\ handlerPc = "answered" =>
         sent = << [ok |-> FALSE, error |-> "No emails provided."] >>

\* What the handler requested, the OAuth flow apart.
Steps == SelectSeq(effects, LAMBDA e : e # "launchWebAuthFlow")

\* What may have been sent so far: at most one response; {ok: true} only after
\* token, fetch, analysis and a download that succeeded, in that order;
\* {ok: false, error} when a step failed; nothing for another message, whose
\* channel is closed.
AnsweredRight ==
  /\ Len(sent) <= 1
  /\ \A n \in 1..Len(sent) :
       /\ sent[n].ok =>
            /\ thrown = ""
            /\ Steps = <<"getAccessToken", "getConfig", "fetch", "analyzeCalendar",
                         "download", "downloaded">>
       /\ ~sent[n].ok => (thrown # "" /\ sent[n].error = thrown)
  /\ handlerPc = "answered" => Len(sent) = 1
  /\ ~IsReport => (sent = <<>> /\ channel # "open")
  /\ handlerPc = "ignored" => channel = "closed"

\* C27: every report message the listener receives is eventually answered,
\* with exactly one response: {ok: true} only if the download was triggered
\* after token, fetch and analysis, in that order, {ok: false, error} if a step
\* failed; a message of another type is not answered and its channel is closed.
C27_EveryReportAnswered ==
  /\ []AnsweredRight
  /\ (handlerPc = "listen" /\ IsReport) ~> (handlerPc = "answered" /\ Len(sent) = 1)
  /\ (handlerPc = "listen" /\ ~IsReport) ~> (handlerPc = "ignored")

\* A report was answered {ok: true} after its download.
C27_Witness ==
  /\ IsReport
  /\ handlerPc = "answered"
  /\ sent = << [ok |-> TRUE, error |-> ""] >>
  /\ "launchWebAuthFlow" \in {effects[n] : n \in 1..Len(effects)}

====
